---- MODULE Spec2Model ----
(***************************************************************************)
(* A model of rilox, a tree-walking Lox interpreter: the driver Lox::run   *)
(* (scan -> parse -> resolve -> interpret), the recursive-descent Parser,  *)
(* the Resolver, the Interpreter with its Environment chain, and the       *)
(* callables LoxFunction / LoxClass / LoxInstance / NativeFunction.        *)
(*                                                                         *)
(* Conventions.  usize positions are 0-based as in the source; sequences   *)
(* are 1-based, so tokens[current] of the source is tokens[current + 1]    *)
(* here.  Option<usize> None is NoDistance, Option<Expr>/Option<Stmt> None *)
(* is NoNode.  Rc<RefCell<Environment>> and Rc<RefCell<LoxInstance>> are   *)
(* indices into the heaps envs and insts of the interpreter record.        *)
(* Result<_, LoxErr> is a record with a field sig: "ok", "err" (Runtime),  *)
(* "ret" (RuntimeReturn), "panic" (a Rust panic or stack overflow, which   *)
(* ends the process) or "bound" (the model's step budget ran out).         *)
(***************************************************************************)
EXTENDS Integers, Sequences, FiniteSets, TLC

VARIABLES pc, input, tokens, parser, statements, resolver, interpreter, log

vars == <<pc, input, tokens, parser, statements, resolver, interpreter, log>>

(***************************************************************************)
(* Bounds of the model.                                                    *)
(***************************************************************************)
\* budget of loop iterations and calls of one top-level statement
MaxSteps == 12

\* the number of environments of the environment chains examined on their own
MaxEnvs == 3

NoDistance == -1

NoNode == [kind |-> "None"]

(***************************************************************************)
(* object.rs: runtime values.                                              *)
(***************************************************************************)
ObjNone == [t |-> "None"]

ObjBool(b) == [t |-> "Bool", b |-> b]

ObjNumber(n) == [t |-> "Number", n |-> n]

ObjString(s) == [t |-> "String", s |-> s]

ObjNative(name) == [t |-> "NativeFunction", name |-> name]

ObjFunction(declaration, closure, is_initializer) ==
    [t |-> "Function", declaration |-> declaration, closure |-> closure,
     is_initializer |-> is_initializer]

ObjClass(name, superclass, methods) ==
    [t |-> "Class", name |-> name, superclass |-> superclass, methods |-> methods]

ObjInstance(ref) == [t |-> "Instance", ref |-> ref]

(***************************************************************************)
(* scanner.rs.  A source text is given as the sequence of its lexemes; the *)
(* scanner's character loop is not modelled, its classification of a      *)
(* lexeme into a token is.                                                 *)
(***************************************************************************)
Keywords ==
    [and |-> "And", class |-> "Class", else |-> "Else", false |-> "False",
     for |-> "For", fun |-> "Fun", if |-> "If", nil |-> "Nil", or |-> "Or",
     print |-> "Print", return |-> "Return", super |-> "Super", this |-> "This",
     true |-> "True", var |-> "Var", while |-> "While"]

Punctuation ==
    ("(" :> "LeftParen") @@ (")" :> "RightParen") @@ ("{" :> "LeftBrace") @@
    ("}" :> "RightBrace") @@ ("," :> "Comma") @@ ("." :> "Dot") @@
    ("-" :> "Minus") @@ ("+" :> "Plus") @@ (";" :> "Semicolon") @@
    ("*" :> "Star") @@ ("/" :> "Slash") @@ ("!" :> "Bang") @@
    ("!=" :> "BangEqual") @@ ("=" :> "Equal") @@ ("==" :> "EqualEqual") @@
    ("<" :> "Less") @@ ("<=" :> "LessEqual") @@ (">" :> "Greater") @@
    (">=" :> "GreaterEqual")

\* the number lexemes of the sources, each the decimal spelling of its index - 1
NumberLexemes == <<"0", "1", "2", "3", "4", "5", "6">>

\* the string lexemes of the sources (quotes included) and their contents
StringLexemes ==
    ("\"A\"" :> "A") @@ ("\"B\"" :> "B") @@ ("\"x\"" :> "x") @@
    ("\"global\"" :> "global") @@ ("\"block\"" :> "block")

Token(token_type, lexeme, literal, line) ==
    [token_type |-> token_type, lexeme |-> lexeme, literal |-> literal, line |-> line]

Scanner_scan_one_token(lexeme) ==
    IF lexeme \in DOMAIN Punctuation THEN Token(Punctuation[lexeme], lexeme, ObjNone, 1)
    ELSE IF lexeme \in DOMAIN StringLexemes
         THEN Token("String", lexeme, ObjString(StringLexemes[lexeme]), 1)
    ELSE IF \E i \in DOMAIN NumberLexemes : NumberLexemes[i] = lexeme
         THEN Token("Number", lexeme,
                    ObjNumber((CHOOSE i \in DOMAIN NumberLexemes : NumberLexemes[i] = lexeme) - 1), 1)
    ELSE IF lexeme \in DOMAIN Keywords
         THEN Token(Keywords[lexeme], lexeme,
                    IF lexeme = "true" THEN ObjBool(TRUE)
                    ELSE IF lexeme = "false" THEN ObjBool(FALSE) ELSE ObjNone, 1)
    ELSE Token("Identifier", lexeme, ObjNone, 1)

\* the lexemes at which scan_one_token returns Err("Unexpected character.")
UnexpectedCharacters == {"@", "#"}

\* the errors scan_tokens collects in err_vec
Scanner_errors(source) ==
    SelectSeq(source, LAMBDA lexeme : lexeme \in UnexpectedCharacters)

\* the tokens the scanner holds when scan_tokens returns: with an error in err_vec
\* it returns Err before it pushes the Eof token
Scanner_scan_tokens(source) ==
    LET scanned == SelectSeq(source, LAMBDA lexeme : lexeme \notin UnexpectedCharacters)
        pushed == [i \in 1..Len(scanned) |-> Scanner_scan_one_token(scanned[i])]
    IN  IF Len(scanned) < Len(source) THEN pushed
        ELSE pushed \o <<Token("Eof", "", ObjNone, 1)>>

(***************************************************************************)
(* expr.rs, stmt.rs: the AST.                                              *)
(***************************************************************************)
LiteralExpr(literal) == [kind |-> "Literal", literal |-> literal]

VariableExpr(name) == [kind |-> "Variable", name |-> name, distance |-> NoDistance]

AssignExpr(name, value) ==
    [kind |-> "Assign", name |-> name, value |-> value, distance |-> NoDistance]

UnaryExpr(operator, right) == [kind |-> "Unary", operator |-> operator, right |-> right]

BinaryExpr(left, operator, right) ==
    [kind |-> "Binary", left |-> left, operator |-> operator, right |-> right]

LogicalExpr(left, operator, right) ==
    [kind |-> "Logical", left |-> left, operator |-> operator, right |-> right]

GroupingExpr(expression) == [kind |-> "Grouping", expression |-> expression]

CallExpr(callee, paren, arguments) ==
    [kind |-> "Call", callee |-> callee, paren |-> paren, arguments |-> arguments]

GetExpr(object, name) == [kind |-> "Get", object |-> object, name |-> name]

SetExpr(object, name, value) ==
    [kind |-> "Set", object |-> object, name |-> name, value |-> value]

ThisExpr(keyword) == [kind |-> "This", keyword |-> keyword, distance |-> NoDistance]

SuperExpr(keyword, method) ==
    [kind |-> "Super", keyword |-> keyword, method |-> method, distance |-> NoDistance]

StmtBlock(stmts) == [kind |-> "Block", statements |-> stmts]

StmtExpression(expression) == [kind |-> "Expression", expression |-> expression]

StmtPrint(expression) == [kind |-> "Print", expression |-> expression]

StmtVar(name, initializer) == [kind |-> "Var", name |-> name, initializer |-> initializer]

StmtIf(condition, then_branch, else_branch) ==
    [kind |-> "If", condition |-> condition, then_branch |-> then_branch,
     else_branch |-> else_branch]

StmtWhile(condition, body) == [kind |-> "While", condition |-> condition, body |-> body]

StmtReturn(keyword, value) == [kind |-> "Return", keyword |-> keyword, value |-> value]

FunctionDeclaration(name, params, body) ==
    [kind |-> "FunctionDeclaration", name |-> name, params |-> params, body |-> body]

ClassDeclaration(name, superclass, methods) ==
    [kind |-> "ClassDeclaration", name |-> name, superclass |-> superclass,
     methods |-> methods]

(***************************************************************************)
(* parser.rs.  A parser p is [tokens, current].  Every parsing method      *)
(* returns [ok, node, p, message]: Ok(node) or Err(LoxErr::Parse) together *)
(* with the parser as the method left it.                                  *)
(***************************************************************************)
Parser_new(toks) == [tokens |-> toks, current |-> 0]

POk(node, p) == [ok |-> TRUE, node |-> node, p |-> p, message |-> ""]

PErr(message, p) == [ok |-> FALSE, node |-> NoNode, p |-> p, message |-> message]

Parser_peek(p) == p.tokens[p.current + 1]

Parser_previous(p) == p.tokens[p.current]

Parser_is_at_end(p) == Parser_peek(p).token_type = "Eof"

Parser_check(p, tt) == IF Parser_is_at_end(p) THEN FALSE ELSE Parser_peek(p).token_type = tt

Parser_advance(p) == IF ~Parser_is_at_end(p) THEN [p EXCEPT !.current = @ + 1] ELSE p

\* matches: whether the next token is one of types, and the parser after advancing past it
Parser_matches(p, types) ==
    IF \E t \in types : Parser_check(p, t)
    THEN [matched |-> TRUE, p |-> Parser_advance(p)]
    ELSE [matched |-> FALSE, p |-> p]

\* get_match_type: Some(type) as the type's name, None as "None"
Parser_get_match_type(p, types) ==
    IF \E t \in types : Parser_check(p, t)
    THEN [type |-> Parser_peek(p).token_type, p |-> Parser_advance(p)]
    ELSE [type |-> "None", p |-> p]

\* consume: Ok(the token consumed) or Err with the message; node holds the token
Parser_consume(p, tt, message) ==
    IF Parser_check(p, tt)
    THEN POk(Parser_previous(Parser_advance(p)), Parser_advance(p))
    ELSE PErr(message, p)

\* the ? of the source: the rest K of a method runs on an Ok, an Err is returned as it is
PThen(r, K(_)) == IF r.ok THEN K(r) ELSE r

RECURSIVE Parser_declaration(_), Parser_statement(_), Parser_expression(_)
RECURSIVE Parser_assignment(_), Parser_unary(_), Parser_call_loop(_, _)
RECURSIVE Parser_arguments(_, _), Parser_primary(_), Parser_block_loop(_, _)
RECURSIVE Parser_left_assoc(_, _, _), Parser_operand(_, _)
RECURSIVE Parser_function_declaration(_, _), Parser_methods(_, _)
RECURSIVE Parser_parameters(_, _), Parser_synchronize_loop(_)
RECURSIVE Parser_synchronize_loop_to_semicolon(_)

Parser_primary(p) ==
    LET tt == Parser_peek(p).token_type
        p1 == Parser_advance(p)
    IN  IF tt \in {"False", "True", "Nil", "Number", "String"}
        THEN POk(LiteralExpr(Parser_previous(p1).literal), p1)
        ELSE IF tt = "This" THEN POk(ThisExpr(Parser_previous(p1)), p1)
        ELSE IF tt = "Super"
        THEN PThen(Parser_consume(p1, "Dot", "Expect '.' after 'super'."), LAMBDA dot :
             PThen(Parser_consume(dot.p, "Identifier", "Expect superclass method name."),
                   LAMBDA method :
             POk(SuperExpr(Parser_previous(p1), method.node), method.p)))
        ELSE IF tt = "Identifier" THEN POk(VariableExpr(Parser_previous(p1)), p1)
        ELSE IF tt = "LeftParen"
        THEN PThen(Parser_expression(p1), LAMBDA expr :
             PThen(Parser_consume(expr.p, "RightParen", "Expect ')' after expression."),
                   LAMBDA close :
             POk(GroupingExpr(expr.node), close.p)))
        ELSE PErr("Expect expression.", p)

\* finish_call's loop over the arguments, after the first check for ')'
Parser_arguments(p, arguments) ==
    PThen(Parser_expression(p), LAMBDA arg :
    LET m == Parser_matches(arg.p, {"Comma"})
    IN  IF m.matched THEN Parser_arguments(m.p, Append(arguments, arg.node))
        ELSE POk(Append(arguments, arg.node), m.p))

Parser_finish_call(p, callee) ==
    PThen(IF ~Parser_check(p, "RightParen") THEN Parser_arguments(p, <<>>)
          ELSE POk(<<>>, p), LAMBDA args :
    PThen(Parser_consume(args.p, "RightParen", "Expect ')' after arguments."), LAMBDA paren :
    POk(CallExpr(callee, paren.node, args.node), paren.p)))

\* the loop of call() over "(" arguments ")" and "." IDENTIFIER
Parser_call_loop(p, expr) ==
    LET m == Parser_get_match_type(p, {"LeftParen", "Dot"})
    IN  IF m.type = "LeftParen"
        THEN PThen(Parser_finish_call(m.p, expr), LAMBDA r : Parser_call_loop(r.p, r.node))
        ELSE IF m.type = "Dot"
        THEN PThen(Parser_consume(m.p, "Identifier", "Expect property name after '.'."),
                   LAMBDA name : Parser_call_loop(name.p, GetExpr(expr, name.node)))
        ELSE POk(expr, p)

Parser_call(p) ==
    PThen(Parser_primary(p), LAMBDA expr : Parser_call_loop(expr.p, expr.node))

Parser_unary(p) ==
    LET m == Parser_matches(p, {"Bang", "Minus"})
    IN  IF m.matched
        THEN PThen(Parser_unary(m.p), LAMBDA right :
                   POk(UnaryExpr(Parser_previous(m.p), right.node), right.p))
        ELSE Parser_call(p)

\* the operator types of each left-associative level
LevelTypes(level) ==
    CASE level = "or" -> {"Or"}
      [] level = "and" -> {"And"}
      [] level = "equality" -> {"BangEqual", "EqualEqual"}
      [] level = "comparison" -> {"Greater", "GreaterEqual", "Less", "LessEqual"}
      [] level = "term" -> {"Minus", "Plus"}
      [] level = "factor" -> {"Slash", "Star"}

\* the while loop shared by or, and, equality, comparison, term and factor
Parser_left_assoc(level, p, expr) ==
    LET m == Parser_matches(p, LevelTypes(level))
    IN  IF m.matched
        THEN PThen(Parser_operand(level, m.p), LAMBDA right :
                   Parser_left_assoc(level, right.p,
                       IF level \in {"or", "and"}
                       THEN LogicalExpr(expr, Parser_previous(m.p), right.node)
                       ELSE BinaryExpr(expr, Parser_previous(m.p), right.node)))
        ELSE POk(expr, p)

Parser_factor(p) ==
    PThen(Parser_operand("factor", p), LAMBDA expr :
          Parser_left_assoc("factor", expr.p, expr.node))

Parser_term(p) ==
    PThen(Parser_operand("term", p), LAMBDA expr :
          Parser_left_assoc("term", expr.p, expr.node))

Parser_comparison(p) ==
    PThen(Parser_operand("comparison", p), LAMBDA expr :
          Parser_left_assoc("comparison", expr.p, expr.node))

Parser_equality(p) ==
    PThen(Parser_operand("equality", p), LAMBDA expr :
          Parser_left_assoc("equality", expr.p, expr.node))

Parser_and(p) ==
    PThen(Parser_operand("and", p), LAMBDA expr :
          Parser_left_assoc("and", expr.p, expr.node))

Parser_or(p) ==
    PThen(Parser_operand("or", p), LAMBDA expr :
          Parser_left_assoc("or", expr.p, expr.node))

\* the operand of each level, left or right: the method of the next level down
Parser_operand(level, p) ==
    CASE level = "or" -> Parser_and(p)
      [] level = "and" -> Parser_equality(p)
      [] level = "equality" -> Parser_comparison(p)
      [] level = "comparison" -> Parser_term(p)
      [] level = "term" -> Parser_factor(p)
      [] level = "factor" -> Parser_unary(p)

Parser_assignment(p) ==
    PThen(Parser_or(p), LAMBDA expr :
    LET m == Parser_matches(expr.p, {"Equal"})
    IN  IF m.matched
        THEN PThen(Parser_assignment(m.p), LAMBDA value :
                 IF expr.node.kind = "Variable"
                 THEN POk(AssignExpr(expr.node.name, value.node), value.p)
                 ELSE IF expr.node.kind = "Get"
                 THEN POk(SetExpr(expr.node.object, expr.node.name, value.node), value.p)
                 ELSE PErr("Invalid assignment target.", value.p))
        ELSE POk(expr.node, expr.p))

Parser_expression(p) == Parser_assignment(p)

Parser_expression_statement(p) ==
    PThen(Parser_expression(p), LAMBDA expr :
    PThen(Parser_consume(expr.p, "Semicolon", "Expect ';' after value."), LAMBDA semi :
    POk(StmtExpression(expr.node), semi.p)))

Parser_print_statement(p) ==
    PThen(Parser_expression(p), LAMBDA value :
    PThen(Parser_consume(value.p, "Semicolon", "Expect ';' after value."), LAMBDA semi :
    POk(StmtPrint(value.node), semi.p)))

Parser_return_statement(p) ==
    PThen(IF Parser_check(p, "Semicolon") THEN POk(NoNode, p) ELSE Parser_expression(p),
          LAMBDA value :
    PThen(Parser_consume(value.p, "Semicolon", "Expect ';' after return value."),
          LAMBDA semi :
    POk(StmtReturn(Parser_previous(p), value.node), semi.p)))

Parser_var_declaration(p) ==
    PThen(Parser_consume(p, "Identifier", "Expect variable name."), LAMBDA name :
    LET m == Parser_matches(name.p, {"Equal"})
    IN  PThen(IF m.matched THEN Parser_expression(m.p) ELSE POk(NoNode, m.p),
              LAMBDA initializer :
        PThen(Parser_consume(initializer.p, "Semicolon",
                             "Expect ';' after variable declaration."), LAMBDA semi :
        POk(StmtVar(name.node, initializer.node), semi.p))))

\* block's loop over the declarations up to '}' or the end
Parser_block_loop(p, stmts) ==
    IF ~Parser_check(p, "RightBrace") /\ ~Parser_is_at_end(p)
    THEN PThen(Parser_declaration(p), LAMBDA d :
               Parser_block_loop(d.p, Append(stmts, d.node)))
    ELSE POk(stmts, p)

Parser_block(p) ==
    PThen(Parser_block_loop(p, <<>>), LAMBDA stmts :
    PThen(Parser_consume(stmts.p, "RightBrace", "Expect '}' after block."), LAMBDA close :
    POk(stmts.node, close.p)))

Parser_if_statement(p) ==
    PThen(Parser_consume(p, "LeftParen", "Expect '(' after 'if'."), LAMBDA open :
    PThen(Parser_expression(open.p), LAMBDA condition :
    PThen(Parser_consume(condition.p, "RightParen", "Expect ')' after if condition."),
          LAMBDA close :
    PThen(Parser_statement(close.p), LAMBDA then_branch :
    LET m == Parser_matches(then_branch.p, {"Else"})
    IN  PThen(IF m.matched THEN Parser_statement(m.p) ELSE POk(NoNode, m.p),
              LAMBDA else_branch :
        POk(StmtIf(condition.node, then_branch.node, else_branch.node),
            else_branch.p))))))

Parser_while_statement(p) ==
    PThen(Parser_consume(p, "LeftParen", "Expect '(' after 'while'."), LAMBDA open :
    PThen(Parser_expression(open.p), LAMBDA condition :
    PThen(Parser_consume(condition.p, "RightParen", "Expect ')' after condition."),
          LAMBDA close :
    PThen(Parser_statement(close.p), LAMBDA body :
    POk(StmtWhile(condition.node, body.node), body.p)))))

\* the desugaring were the increment put in front of the body
Desugar_increment_first(initializer, condition, increment, body) ==
    LET for_body == IF increment # NoNode
                    THEN StmtBlock(<<StmtExpression(increment), body>>)
                    ELSE body
        while_stmt == StmtWhile(condition, for_body)
    IN  IF initializer # NoNode THEN StmtBlock(<<initializer, while_stmt>>)
        ELSE while_stmt

\* the desugaring at the end of for_statement
Desugar(initializer, condition, increment, body) ==
    LET for_body == IF increment # NoNode
                    THEN StmtBlock(<<body, StmtExpression(increment)>>)
                    ELSE body
        while_stmt == StmtWhile(condition, for_body)
    IN  IF initializer # NoNode THEN StmtBlock(<<initializer, while_stmt>>)
        ELSE while_stmt

Parser_for_statement(p) ==
    PThen(Parser_consume(p, "LeftParen", "Expect '(' after 'for'."), LAMBDA open :
    LET m == Parser_get_match_type(open.p, {"Semicolon", "Var"})
    IN  PThen(IF m.type = "Semicolon" THEN POk(NoNode, m.p)
              ELSE IF m.type = "Var" THEN Parser_var_declaration(m.p)
              ELSE Parser_expression_statement(m.p), LAMBDA initializer :
        PThen(IF Parser_check(initializer.p, "Semicolon")
              THEN POk(LiteralExpr(ObjBool(TRUE)), initializer.p)
              ELSE Parser_expression(initializer.p), LAMBDA condition :
        PThen(Parser_consume(condition.p, "Semicolon", "Expect ';' after loop condition."),
              LAMBDA semi :
        PThen(IF Parser_check(semi.p, "RightParen") THEN POk(NoNode, semi.p)
              ELSE Parser_expression(semi.p), LAMBDA increment :
        PThen(Parser_consume(increment.p, "RightParen", "Expect ')' after for clauses."),
              LAMBDA close :
        PThen(Parser_statement(close.p), LAMBDA body :
        POk(Desugar(initializer.node, condition.node, increment.node, body.node),
            body.p))))))))

Parser_statement(p) ==
    LET m == Parser_get_match_type(p, {"If", "Print", "Return", "While", "For", "LeftBrace"})
    IN  CASE m.type = "If" -> Parser_if_statement(m.p)
          [] m.type = "Print" -> Parser_print_statement(m.p)
          [] m.type = "Return" -> Parser_return_statement(m.p)
          [] m.type = "While" -> Parser_while_statement(m.p)
          [] m.type = "For" -> Parser_for_statement(m.p)
          [] m.type = "LeftBrace" ->
                PThen(Parser_block(m.p), LAMBDA b : POk(StmtBlock(b.node), b.p))
          [] OTHER -> Parser_expression_statement(m.p)

\* function_declaration's loop over the parameters, after the first check for ')'
Parser_parameters(p, parameters) ==
    PThen(Parser_consume(p, "Identifier", "Expect parameter name."), LAMBDA param :
    LET m == Parser_matches(param.p, {"Comma"})
    IN  IF m.matched THEN Parser_parameters(m.p, Append(parameters, param.node))
        ELSE POk(Append(parameters, param.node), m.p))

Parser_function_declaration(p, kind) ==
    PThen(Parser_consume(p, "Identifier", "Expect " \o kind \o " name."), LAMBDA name :
    PThen(Parser_consume(name.p, "LeftParen", "Expect '(' after " \o kind \o " name."),
          LAMBDA open :
    PThen(IF ~Parser_check(open.p, "RightParen") THEN Parser_parameters(open.p, <<>>)
          ELSE POk(<<>>, open.p), LAMBDA parameters :
    PThen(Parser_consume(parameters.p, "RightParen", "Expect ')' after parameters."),
          LAMBDA close :
    PThen(Parser_consume(close.p, "LeftBrace", "Expect '{' before " \o kind \o " body."),
          LAMBDA brace :
    PThen(Parser_block(brace.p), LAMBDA body :
    POk(FunctionDeclaration(name.node, parameters.node, body.node), body.p)))))))

\* class_declaration's loop over the methods up to '}' or the end
Parser_methods(p, methods) ==
    IF ~Parser_check(p, "RightBrace") /\ ~Parser_is_at_end(p)
    THEN PThen(Parser_function_declaration(p, "method"), LAMBDA f :
               Parser_methods(f.p, Append(methods, f.node)))
    ELSE POk(methods, p)

Parser_class_declaration(p) ==
    PThen(Parser_consume(p, "Identifier", "Expect class name."), LAMBDA name :
    LET m == Parser_matches(name.p, {"Less"})
    IN  PThen(IF m.matched
              THEN Parser_consume(m.p, "Identifier", "Expect superclass name.")
              ELSE POk(NoNode, m.p), LAMBDA supername :
        PThen(Parser_consume(supername.p, "LeftBrace", "Expect '{' before class body."),
              LAMBDA brace :
        PThen(Parser_methods(brace.p, <<>>), LAMBDA methods :
        PThen(Parser_consume(methods.p, "RightBrace", "Expect '}' after class body."),
              LAMBDA close :
        POk(ClassDeclaration(name.node,
                IF m.matched THEN VariableExpr(supername.node) ELSE NoNode,
                methods.node), close.p))))))

Parser_declaration(p) ==
    LET m == Parser_get_match_type(p, {"Var", "Fun", "Class"})
    IN  CASE m.type = "Var" -> Parser_var_declaration(m.p)
          [] m.type = "Fun" -> Parser_function_declaration(m.p, "function")
          [] m.type = "Class" -> Parser_class_declaration(m.p)
          [] OTHER -> Parser_statement(m.p)

\* the token types at which synchronize stops
SyncKeywords == {"Class", "Fun", "Var", "For", "If", "While", "Print", "Return"}

\* synchronize's while loop were it to stop only after a semicolon
Parser_synchronize_loop_to_semicolon(p) ==
    IF Parser_is_at_end(p) THEN p
    ELSE IF Parser_previous(p).token_type = "Semicolon" THEN p
    ELSE Parser_synchronize_loop_to_semicolon(Parser_advance(p))

\* synchronize's while loop
Parser_synchronize_loop(p) ==
    IF Parser_is_at_end(p) THEN p
    ELSE IF Parser_previous(p).token_type = "Semicolon" THEN p
    ELSE IF Parser_peek(p).token_type \in SyncKeywords THEN p
    ELSE Parser_synchronize_loop(Parser_advance(p))

\* synchronize were it not to advance before its loop
Parser_synchronize_in_place(p) == Parser_synchronize_loop(p)

Parser_synchronize(p) == Parser_synchronize_loop(Parser_advance(p))

\* the whole of Parser::parse, used to examine the parser on a token list
RECURSIVE Parser_parse(_, _)
Parser_parse(p, stmts) ==
    IF Parser_is_at_end(p) THEN stmts
    ELSE LET d == Parser_declaration(p)
         IN  IF d.ok THEN Parser_parse(d.p, Append(stmts, d.node))
             ELSE Parser_parse(Parser_synchronize(d.p), stmts)

(***************************************************************************)
(* resolver.rs.  A resolver rs is [had_resolve_error, scopes,              *)
(* current_function, current_class, reported]; reported is what resolve    *)
(* wrote to standard error.  A scope maps a name to its defined flag.      *)
(* Every visit returns [ok, node, rs, message]: Ok(()) or                  *)
(* Err(LoxErr::Resolve), the node with the distances set so far, and the   *)
(* resolver as the visit left it.                                          *)
(***************************************************************************)
Resolver_new ==
    [had_resolve_error |-> FALSE, scopes |-> <<>>, current_function |-> "None",
     current_class |-> "None", reported |-> <<>>]

ROk(node, rs) == [ok |-> TRUE, node |-> node, rs |-> rs, message |-> ""]

RErr(message, node, rs) == [ok |-> FALSE, node |-> node, rs |-> rs, message |-> message]

\* HashMap::insert on the innermost scope
ScopeInsert(rs, lexeme, flag) ==
    [rs EXCEPT !.scopes[Len(rs.scopes)] = (lexeme :> flag) @@ @]

Resolver_begin_scope(rs) == [rs EXCEPT !.scopes = Append(@, <<>>)]

Resolver_end_scope(rs) ==
    IF rs.scopes = <<>> THEN rs
    ELSE [rs EXCEPT !.scopes = SubSeq(@, 1, Len(@) - 1)]

Resolver_declare(rs, name) ==
    IF rs.scopes # <<>>
    THEN IF name.lexeme \in DOMAIN rs.scopes[Len(rs.scopes)]
         THEN RErr("Already variable with this name in this scope.", NoNode, rs)
         ELSE ROk(NoNode, ScopeInsert(rs, name.lexeme, FALSE))
    ELSE ROk(NoNode, rs)

Resolver_define(rs, name) ==
    IF rs.scopes # <<>> THEN ScopeInsert(rs, name.lexeme, TRUE) ELSE rs

\* Resolvable::name of a node: the name token, or the keyword of this / super
ResolvableName(node) ==
    IF node.kind \in {"This", "Super"} THEN node.keyword ELSE node.name

\* resolve_local: the node with its distance set, or unchanged
Resolver_resolve_local(rs, node) ==
    LET n == Len(rs.scopes)
        hits == {i \in 0..(n - 1) : ResolvableName(node).lexeme \in DOMAIN rs.scopes[i + 1]}
    IN  IF hits = {} THEN node
        ELSE LET i == CHOOSE j \in hits : \A k \in hits : k <= j
             IN  [node EXCEPT !.distance = n - 1 - i]

\* let r = ...; the rest K of a method runs on the result r
With(r, K(_)) == K(r)

\* the ? of the source on a visit r that resolved a part of node: the Err with the node
\* as resolved so far, or the rest K of the method
RThen(r, node, K(_)) == IF r.ok THEN K(r) ELSE RErr(r.message, node, r.rs)

RECURSIVE Resolver_resolve(_, _, _), Resolver_resolve_stmt(_, _), Resolver_resolve_expr(_, _)
RECURSIVE Resolver_resolve_function(_, _, _), Resolver_arguments(_, _, _)
RECURSIVE Resolver_params(_, _, _), Resolver_methods(_, _, _)

\* resolve's loop from statement i on: the statements as resolved, and the resolver
Resolver_resolve(stmts, i, rs) ==
    IF i > Len(stmts) THEN [node |-> stmts, rs |-> rs]
    ELSE With(Resolver_resolve_stmt(stmts[i], rs), LAMBDA r :
             Resolver_resolve([stmts EXCEPT ![i] = r.node], i + 1,
                 IF r.ok THEN r.rs
                 ELSE [r.rs EXCEPT !.reported = Append(@, r.message),
                                   !.had_resolve_error = TRUE]))

\* resolve_function's loop over the parameters from parameter i on
Resolver_params(params, i, rs) ==
    IF i > Len(params) THEN ROk(NoNode, rs)
    ELSE RThen(Resolver_declare(rs, params[i]), NoNode, LAMBDA d :
               Resolver_params(params, i + 1, Resolver_define(d.rs, params[i])))

Resolver_resolve_function(decl, function_type, rs) ==
    RThen(Resolver_params(decl.params, 1,
              Resolver_begin_scope([rs EXCEPT !.current_function = function_type])),
          decl, LAMBDA ps :
    With(Resolver_resolve(decl.body, 1, ps.rs), LAMBDA body :
    ROk([decl EXCEPT !.body = body.node],
        [Resolver_end_scope(body.rs) EXCEPT !.current_function = rs.current_function])))

Resolver_visit_block_stmt(stmt, rs) ==
    With(Resolver_resolve(stmt.statements, 1, Resolver_begin_scope(rs)), LAMBDA body :
    ROk([stmt EXCEPT !.statements = body.node], Resolver_end_scope(body.rs)))

Resolver_visit_variable_expr(expr, rs) ==
    IF /\ rs.scopes # <<>>
       /\ expr.name.lexeme \in DOMAIN rs.scopes[Len(rs.scopes)]
       /\ rs.scopes[Len(rs.scopes)][expr.name.lexeme] = FALSE
    THEN RErr("Can't read local variable in its own initializer.", expr, rs)
    ELSE ROk(Resolver_resolve_local(rs, expr), rs)

\* visit_class_declaration_stmt's loop over the methods from method i on
Resolver_methods(methods, i, rs) ==
    IF i > Len(methods) THEN ROk(methods, rs)
    ELSE With(Resolver_resolve_function(methods[i],
                  IF methods[i].name.lexeme = "init" THEN "Initializer" ELSE "Method", rs),
              LAMBDA f :
         IF ~f.ok THEN RErr(f.message, [methods EXCEPT ![i] = f.node], f.rs)
         ELSE Resolver_methods([methods EXCEPT ![i] = f.node], i + 1, f.rs))

\* visit_class_declaration_stmt from the resolution of the superclass on
Resolver_class_body(decl, enclosing_class, rs) ==
    LET has_super == decl.superclass # NoNode
    IN  RThen(IF has_super
              THEN Resolver_visit_variable_expr(decl.superclass,
                       [rs EXCEPT !.current_class = "SubClass"])
              ELSE ROk(NoNode, rs), decl, LAMBDA sup :
        With(Resolver_methods(decl.methods, 1,
                 ScopeInsert(Resolver_begin_scope(
                     IF has_super
                     THEN ScopeInsert(Resolver_begin_scope(sup.rs), "super", TRUE)
                     ELSE sup.rs), "this", TRUE)), LAMBDA ms :
        LET decl1 == [decl EXCEPT !.superclass = sup.node, !.methods = ms.node]
            rs4 == Resolver_end_scope(ms.rs)
            rs5 == IF has_super THEN Resolver_end_scope(rs4) ELSE rs4
        IN  IF ~ms.ok THEN RErr(ms.message, decl1, ms.rs)
            ELSE ROk(decl1, [rs5 EXCEPT !.current_class = enclosing_class])))

Resolver_visit_class_declaration_stmt(decl, rs) ==
    RThen(Resolver_declare([rs EXCEPT !.current_class = "Class"], decl.name), decl,
          LAMBDA d :
    IF decl.superclass # NoNode /\ decl.name.lexeme = decl.superclass.name.lexeme
    THEN RErr("A class can't inherit from itself.", decl, Resolver_define(d.rs, decl.name))
    ELSE Resolver_class_body(decl, rs.current_class, Resolver_define(d.rs, decl.name)))

Resolver_visit_var_stmt(stmt, rs) ==
    RThen(Resolver_declare(rs, stmt.name), stmt, LAMBDA d :
    With(IF stmt.initializer # NoNode THEN Resolver_resolve_expr(stmt.initializer, d.rs)
         ELSE ROk(NoNode, d.rs), LAMBDA init :
    IF ~init.ok THEN RErr(init.message, [stmt EXCEPT !.initializer = init.node], init.rs)
    ELSE ROk([stmt EXCEPT !.initializer = init.node], Resolver_define(init.rs, stmt.name))))

Resolver_visit_function_declaration_stmt(decl, rs) ==
    RThen(Resolver_declare(rs, decl.name), decl, LAMBDA d :
    Resolver_resolve_function(decl, "Function", Resolver_define(d.rs, decl.name)))

\* visit_if_stmt from the then branch on
Resolver_if_branches(stmt, rs) ==
    With(Resolver_resolve_stmt(stmt.then_branch, rs), LAMBDA t :
    IF ~t.ok THEN RErr(t.message, [stmt EXCEPT !.then_branch = t.node], t.rs)
    ELSE With(IF stmt.else_branch # NoNode
              THEN Resolver_resolve_stmt(stmt.else_branch, t.rs)
              ELSE ROk(NoNode, t.rs), LAMBDA e :
         [e EXCEPT !.node = [stmt EXCEPT !.then_branch = t.node, !.else_branch = e.node]]))

Resolver_visit_if_stmt(stmt, rs) ==
    With(Resolver_resolve_expr(stmt.condition, rs), LAMBDA c :
    IF ~c.ok THEN RErr(c.message, [stmt EXCEPT !.condition = c.node], c.rs)
    ELSE Resolver_if_branches([stmt EXCEPT !.condition = c.node], c.rs))

Resolver_visit_while_stmt(stmt, rs) ==
    With(Resolver_resolve_expr(stmt.condition, rs), LAMBDA c :
    IF ~c.ok THEN RErr(c.message, [stmt EXCEPT !.condition = c.node], c.rs)
    ELSE With(Resolver_resolve_stmt(stmt.body, c.rs), LAMBDA b :
         [b EXCEPT !.node = [stmt EXCEPT !.condition = c.node, !.body = b.node]]))

\* visit_expression_stmt and visit_print_stmt
Resolver_visit_expression_stmt(stmt, rs) ==
    With(Resolver_resolve_expr(stmt.expression, rs), LAMBDA e :
    [e EXCEPT !.node = [stmt EXCEPT !.expression = e.node]])

Resolver_visit_return_stmt(stmt, rs) ==
    IF rs.current_function = "None"
    THEN RErr("Can't return from top-level code.", stmt, rs)
    ELSE IF stmt.value # NoNode
    THEN IF rs.current_function = "Initializer"
         THEN RErr("Can't return a value from an initializer.", stmt, rs)
         ELSE With(Resolver_resolve_expr(stmt.value, rs), LAMBDA v :
              [v EXCEPT !.node = [stmt EXCEPT !.value = v.node]])
    ELSE ROk(stmt, rs)

Resolver_resolve_stmt(stmt, rs) ==
    CASE stmt.kind = "Block" -> Resolver_visit_block_stmt(stmt, rs)
      [] stmt.kind = "ClassDeclaration" -> Resolver_visit_class_declaration_stmt(stmt, rs)
      [] stmt.kind \in {"Expression", "Print"} -> Resolver_visit_expression_stmt(stmt, rs)
      [] stmt.kind = "FunctionDeclaration" ->
            Resolver_visit_function_declaration_stmt(stmt, rs)
      [] stmt.kind = "If" -> Resolver_visit_if_stmt(stmt, rs)
      [] stmt.kind = "While" -> Resolver_visit_while_stmt(stmt, rs)
      [] stmt.kind = "Return" -> Resolver_visit_return_stmt(stmt, rs)
      [] stmt.kind = "Var" -> Resolver_visit_var_stmt(stmt, rs)

Resolver_visit_assign_expr(expr, rs) ==
    With(Resolver_resolve_expr(expr.value, rs), LAMBDA v :
    IF ~v.ok THEN RErr(v.message, [expr EXCEPT !.value = v.node], v.rs)
    ELSE ROk(Resolver_resolve_local(v.rs, [expr EXCEPT !.value = v.node]), v.rs))

\* visit_binary_expr and visit_logical_expr
Resolver_visit_binary_expr(expr, rs) ==
    With(Resolver_resolve_expr(expr.left, rs), LAMBDA l :
    IF ~l.ok THEN RErr(l.message, [expr EXCEPT !.left = l.node], l.rs)
    ELSE With(Resolver_resolve_expr(expr.right, l.rs), LAMBDA r :
         [r EXCEPT !.node = [expr EXCEPT !.left = l.node, !.right = r.node]]))

\* visit_call_expr's loop over the arguments from argument i on
Resolver_arguments(arguments, i, rs) ==
    IF i > Len(arguments) THEN ROk(arguments, rs)
    ELSE With(Resolver_resolve_expr(arguments[i], rs), LAMBDA a :
         IF ~a.ok THEN RErr(a.message, [arguments EXCEPT ![i] = a.node], a.rs)
         ELSE Resolver_arguments([arguments EXCEPT ![i] = a.node], i + 1, a.rs))

Resolver_visit_call_expr(expr, rs) ==
    With(Resolver_resolve_expr(expr.callee, rs), LAMBDA c :
    IF ~c.ok THEN RErr(c.message, [expr EXCEPT !.callee = c.node], c.rs)
    ELSE With(Resolver_arguments(expr.arguments, 1, c.rs), LAMBDA a :
         [a EXCEPT !.node = [expr EXCEPT !.callee = c.node, !.arguments = a.node]]))

Resolver_visit_get_expr(expr, rs) ==
    With(Resolver_resolve_expr(expr.object, rs), LAMBDA o :
    [o EXCEPT !.node = [expr EXCEPT !.object = o.node]])

Resolver_visit_grouping_expr(expr, rs) ==
    With(Resolver_resolve_expr(expr.expression, rs), LAMBDA e :
    [e EXCEPT !.node = [expr EXCEPT !.expression = e.node]])

Resolver_visit_set_expr(expr, rs) ==
    With(Resolver_resolve_expr(expr.value, rs), LAMBDA v :
    IF ~v.ok THEN RErr(v.message, [expr EXCEPT !.value = v.node], v.rs)
    ELSE With(Resolver_resolve_expr(expr.object, v.rs), LAMBDA o :
         [o EXCEPT !.node = [expr EXCEPT !.value = v.node, !.object = o.node]]))

Resolver_visit_super_expr(expr, rs) ==
    IF rs.current_class = "None"
    THEN RErr("Can't use 'super' outside of a class.", expr, rs)
    ELSE IF rs.current_class # "SubClass"
    THEN RErr("Can't use 'super' in a class with no superclass.", expr, rs)
    ELSE ROk(Resolver_resolve_local(rs, expr), rs)

Resolver_visit_this_expr(expr, rs) ==
    IF rs.current_class = "None"
    THEN RErr("Can't use 'this' outside of a class.", expr, rs)
    ELSE ROk(Resolver_resolve_local(rs, expr), rs)

Resolver_visit_unary_expr(expr, rs) ==
    With(Resolver_resolve_expr(expr.right, rs), LAMBDA r :
    [r EXCEPT !.node = [expr EXCEPT !.right = r.node]])

Resolver_resolve_expr(expr, rs) ==
    CASE expr.kind = "Assign" -> Resolver_visit_assign_expr(expr, rs)
      [] expr.kind \in {"Binary", "Logical"} -> Resolver_visit_binary_expr(expr, rs)
      [] expr.kind = "Call" -> Resolver_visit_call_expr(expr, rs)
      [] expr.kind = "Get" -> Resolver_visit_get_expr(expr, rs)
      [] expr.kind = "Grouping" -> Resolver_visit_grouping_expr(expr, rs)
      [] expr.kind = "Literal" -> ROk(expr, rs)
      [] expr.kind = "Set" -> Resolver_visit_set_expr(expr, rs)
      [] expr.kind = "Super" -> Resolver_visit_super_expr(expr, rs)
      [] expr.kind = "This" -> Resolver_visit_this_expr(expr, rs)
      [] expr.kind = "Unary" -> Resolver_visit_unary_expr(expr, rs)
      [] expr.kind = "Variable" -> Resolver_visit_variable_expr(expr, rs)

(***************************************************************************)
(* environment.rs, interpreter.rs and the callables.  An interpreter st is *)
(* [had_runtime_error, environment, globals, envs, insts, stdout, stderr]  *)
(* plus the bookkeeping of the model: fuel (the step budget left), now     *)
(* (what clock reads), hash_order (which entry a HashMap comparison meets  *)
(* first when it matters), depth (the number of active function           *)
(* invocations) and trace (what happened, for the properties).             *)
(* envs[e] is [enclosing, values] with enclosing = 0 for None.             *)
(* insts[i] is [class, fields].                                            *)
(* Every evaluation returns [sig, val, st, message, depth].                *)
(***************************************************************************)
IOk(val, st) == [sig |-> "ok", val |-> val, st |-> st, message |-> "", depth |-> 0]

IErr(message, st) ==
    [sig |-> "err", val |-> ObjNone, st |-> st, message |-> message, depth |-> 0]

\* Err(LoxErr::RuntimeReturn { ret_value }), raised at call depth st.depth
IRet(val, st) ==
    [sig |-> "ret", val |-> val, st |-> st, message |-> "RuntimeReturn", depth |-> st.depth]

IPanic(message, st) ==
    [sig |-> "panic", val |-> ObjNone, st |-> st, message |-> message, depth |-> 0]

IBound(st) ==
    [sig |-> "bound", val |-> ObjNone, st |-> st, message |-> "out of the model's bounds",
     depth |-> 0]

Emit(st, event) == [st EXCEPT !.trace = Append(@, event)]

\* Environment::new: the handle of a fresh environment, and the heap holding it
Environment_new(st) ==
    [env |-> Len(st.envs) + 1,
     st |-> [st EXCEPT !.envs = Append(@, [enclosing |-> 0, values |-> <<>>])]]

Environment_set_enclosing(st, env, enclosing) ==
    [st EXCEPT !.envs[env].enclosing = enclosing]

Environment_define(st, env, name, value) ==
    [st EXCEPT !.envs[env].values = (name :> value) @@ @]

RECURSIVE Environment_get(_, _, _), Environment_assign(_, _, _, _)
RECURSIVE Environment_assign_or_define(_, _, _, _)

\* assign were it to define the name in the outermost environment when no
\* environment of the chain binds it
Environment_assign_or_define(st, env, name, value) ==
    IF name.lexeme \in DOMAIN st.envs[env].values
    THEN IOk(ObjNone, [st EXCEPT !.envs[env].values[name.lexeme] = value])
    ELSE IF st.envs[env].enclosing # 0
    THEN Environment_assign_or_define(st, st.envs[env].enclosing, name, value)
    ELSE IOk(ObjNone, Environment_define(st, env, name.lexeme, value))

Environment_get(st, env, name) ==
    IF name.lexeme \in DOMAIN st.envs[env].values
    THEN IOk(st.envs[env].values[name.lexeme], st)
    ELSE IF st.envs[env].enclosing # 0
    THEN Environment_get(st, st.envs[env].enclosing, name)
    ELSE IErr("Undefined variable '" \o name.lexeme \o "'.", st)

Environment_assign(st, env, name, value) ==
    IF name.lexeme \in DOMAIN st.envs[env].values
    THEN IOk(ObjNone, [st EXCEPT !.envs[env].values[name.lexeme] = value])
    ELSE IF st.envs[env].enclosing # 0
    THEN Environment_assign(st, st.envs[env].enclosing, name, value)
    ELSE IErr("Undefined variable '" \o name.lexeme \o "'.", st)

\* ancestor: the environment distance >= 1 hops up, or 0 where an unwrap of None panics
RECURSIVE Environment_ancestor(_, _, _)
Environment_ancestor(st, env, distance) ==
    IF distance < 1 \/ env = 0 THEN 0
    ELSE IF distance = 1 THEN st.envs[env].enclosing
    ELSE Environment_ancestor(st, st.envs[env].enclosing, distance - 1)

\* the environment get_at / assign_at act on: env itself at distance 0
EnvAt(st, env, distance) ==
    IF distance = 0 THEN env ELSE Environment_ancestor(st, env, distance)

Environment_get_at(st, env, distance, name) ==
    LET e == EnvAt(st, env, distance)
    IN  IF e = 0 THEN IPanic("unwrap on a None value", st)
        ELSE IF name \notin DOMAIN st.envs[e].values
        THEN IPanic("unwrap on a None value", st)
        ELSE IOk(st.envs[e].values[name], st)

Environment_assign_at(st, env, distance, name, value) ==
    LET e == EnvAt(st, env, distance)
    IN  IF e = 0 THEN IPanic("unwrap on a None value", st)
        ELSE IF name.lexeme \notin DOMAIN st.envs[e].values
        THEN IPanic("unwrap on a None value", st)
        ELSE IOk(ObjNone, [st EXCEPT !.envs[e].values[name.lexeme] = value])

(***************************************************************************)
(* The derived PartialEq of Object.  Rc<RefCell<T>> compares the values    *)
(* behind the handles, so equality walks closures, classes and instances.  *)
(* The result is the set of possible outcomes: "T", "F", or "O" when the   *)
(* comparison meets a pair of handles it is already comparing, recurses    *)
(* without end and overflows the stack.  A HashMap comparison visits its   *)
(* entries in an order the hasher's random seed decides, so it can have    *)
(* both "F" and "O".                                                       *)
(***************************************************************************)
\* a && b over outcome sets, b given as the outcomes of the right operand
EqAnd(a, b) ==
    (a \cap {"F", "O"}) \cup (IF "T" \in a THEN b ELSE {})

\* the entries of a HashMap comparison, combined
EqAll(entries) ==
    (IF \A e \in entries : "T" \in e THEN {"T"} ELSE {})
        \cup (IF \E e \in entries : "F" \in e THEN {"F"} ELSE {})
        \cup (IF \E e \in entries : "O" \in e THEN {"O"} ELSE {})

RECURSIVE Object_eq(_, _, _, _), Environment_eq(_, _, _, _), HashMap_eq(_, _, _, _)
RECURSIVE LoxClass_eq(_, _, _, _)

HashMap_eq(m1, m2, st, path) ==
    IF Cardinality(DOMAIN m1) # Cardinality(DOMAIN m2) THEN {"F"}
    ELSE EqAll({IF k \in DOMAIN m2 THEN Object_eq(m1[k], m2[k], st, path) ELSE {"F"}
                : k \in DOMAIN m1})

Environment_eq(e1, e2, st, path) ==
    IF e1 = 0 \/ e2 = 0 THEN (IF e1 = e2 THEN {"T"} ELSE {"F"})
    ELSE IF <<"env", e1, e2>> \in path THEN {"O"}
    ELSE LET path1 == path \cup {<<"env", e1, e2>>}
         IN  EqAnd(Environment_eq(st.envs[e1].enclosing, st.envs[e2].enclosing, st, path1),
                   HashMap_eq(st.envs[e1].values, st.envs[e2].values, st, path1))

LoxFunction_eq(f1, f2, st, path) ==
    EqAnd(IF f1.declaration = f2.declaration THEN {"T"} ELSE {"F"},
          EqAnd(Environment_eq(f1.closure, f2.closure, st, path),
                IF f1.is_initializer = f2.is_initializer THEN {"T"} ELSE {"F"}))

LoxClass_eq(c1, c2, st, path) ==
    EqAnd(IF c1.name = c2.name THEN {"T"} ELSE {"F"},
          EqAnd(IF c1.superclass.t # c2.superclass.t THEN {"F"}
                ELSE IF c1.superclass.t = "None" THEN {"T"}
                ELSE LoxClass_eq(c1.superclass, c2.superclass, st, path),
                HashMap_eq(c1.methods, c2.methods, st, path)))

LoxInstance_eq(i1, i2, st, path) ==
    IF <<"inst", i1, i2>> \in path THEN {"O"}
    ELSE LET path1 == path \cup {<<"inst", i1, i2>>}
         IN  EqAnd(LoxClass_eq(st.insts[i1].class, st.insts[i2].class, st, path1),
                   HashMap_eq(st.insts[i1].fields, st.insts[i2].fields, st, path1))

Object_eq(a, b, st, path) ==
    IF a.t # b.t THEN {"F"}
    ELSE CASE a.t = "None" -> {"T"}
           [] a.t = "Bool" -> IF a.b = b.b THEN {"T"} ELSE {"F"}
           [] a.t = "String" -> IF a.s = b.s THEN {"T"} ELSE {"F"}
           [] a.t = "Number" -> IF a.n = b.n THEN {"T"} ELSE {"F"}
           [] a.t = "NativeFunction" -> IF a.name = b.name THEN {"T"} ELSE {"F"}
           [] a.t = "Function" -> LoxFunction_eq(a, b, st, path)
           [] a.t = "Class" -> LoxClass_eq(a, b, st, path)
           [] a.t = "Instance" -> LoxInstance_eq(a.ref, b.ref, st, path)

(***************************************************************************)
(* lox_class.rs, lox_instance.rs, lox_function.rs, object.rs: callables.   *)
(***************************************************************************)
\* find_method: Some(method) as the function value, None as ObjNone
RECURSIVE LoxClass_find_method(_, _)
LoxClass_find_method(class, name) ==
    IF name \in DOMAIN class.methods THEN class.methods[name]
    ELSE IF class.superclass.t # "None" THEN LoxClass_find_method(class.superclass, name)
    ELSE ObjNone

LoxFunction_arity(function) == Len(function.declaration.params)

LoxClass_arity(class) ==
    LET initializer == LoxClass_find_method(class, "init")
    IN  IF initializer.t # "None" THEN LoxFunction_arity(initializer) ELSE 0

NativeFunction_arity(native) == 0

\* the arity of a callable value, as LoxCallable::arity gives it
CallableArity(callee) ==
    CASE callee.t = "Function" -> LoxFunction_arity(callee)
      [] callee.t = "NativeFunction" -> NativeFunction_arity(callee)
      [] callee.t = "Class" -> LoxClass_arity(callee)

\* bind: the bound function, and the heap holding its new closure
\* bind were it to define this in the closure of the method itself
LoxFunction_bind_in_closure(function, instance, st) ==
    [fn |-> function,
     st |-> Environment_define(st, function.closure, "this", ObjInstance(instance))]

LoxFunction_bind(function, instance, st) ==
    LET n == Environment_new(st)
        st1 == Environment_set_enclosing(n.st, n.env, function.closure)
        st2 == Environment_define(st1, n.env, "this", ObjInstance(instance))
    IN  [fn |-> ObjFunction(function.declaration, n.env, function.is_initializer),
         st |-> st2]

\* LoxInstance::new behind a fresh Rc: the handle, and the heap holding the instance
LoxInstance_new(class, st) ==
    [ref |-> Len(st.insts) + 1,
     st |-> [st EXCEPT !.insts = Append(@, [class |-> class, fields |-> <<>>])]]

\* the ? of the source: the rest K of a method runs on an Ok; an Err, a return, a panic
\* is returned as it is
IThen(r, K(_)) == IF r.sig = "ok" THEN K(r) ELSE r

\* the record of one LoxInstance::get: the instance and its fields as the get found
\* them, the method found (ObjNone for a field or when none), what it returned
\* (ObjNone with an error), and the environments that existed before it
Get(st, instance, name, method, result, message, after) ==
    Emit(after, [ev |-> "get", name |-> name.lexeme, instance |-> instance,
                 fields |-> st.insts[instance].fields, method |-> method,
                 result |-> result, message |-> message, envs |-> Len(st.envs)])

LoxInstance_get(st, instance, name) ==
    IF name.lexeme \in DOMAIN st.insts[instance].fields
    THEN With(st.insts[instance].fields[name.lexeme], LAMBDA existing_property :
              IOk(existing_property,
                  Get(st, instance, name, ObjNone, existing_property, "", st)))
    ELSE With(LoxClass_find_method(st.insts[instance].class, name.lexeme), LAMBDA method :
         IF method.t # "None"
         THEN With(LoxFunction_bind(method, instance, st), LAMBDA bound :
                   IOk(bound.fn, Get(st, instance, name, method, bound.fn, "", bound.st)))
         ELSE With("Undefined property " \o name.lexeme \o ".", LAMBDA message :
                   IErr(message, Get(st, instance, name, method, ObjNone, message, st))))

\* set were the instance a value that the Object holds, copied with it
LoxInstance_set_on_copy(st, instance, name, value) == st

LoxInstance_set(st, instance, name, value) ==
    [st EXCEPT !.insts[instance].fields = (name.lexeme :> value) @@ @]

\* the Display of a value: what print writes
Display(v, st) ==
    CASE v.t = "None" -> "nil"
      [] v.t = "Bool" -> IF v.b THEN "true" ELSE "false"
      [] v.t = "String" -> v.s
      [] v.t = "Number" -> ToString(v.n)
      [] v.t = "Function" -> "<fn " \o v.declaration.name.lexeme \o ">"
      [] v.t = "NativeFunction" -> "<native fn " \o v.name
      [] v.t = "Class" -> "<class " \o v.name \o ">"
      [] v.t = "Instance" -> "<" \o st.insts[v.ref].class.name \o " instance>"

NativeFunction_call(native, arguments, st) ==
    IOk(ObjNumber(st.now),
        Emit(st, [ev |-> "invoke", callee |-> "NativeFunction",
                  arity |-> NativeFunction_arity(native), nargs |-> Len(arguments)]))

(***************************************************************************)
(* interpreter.rs.                                                         *)
(***************************************************************************)
Interpreter_new ==
    [had_runtime_error |-> FALSE, environment |-> 1, globals |-> 1,
     envs |-> <<[enclosing |-> 0, values |-> ("clock" :> ObjNative("clock"))]>>,
     insts |-> <<>>, stdout |-> <<>>, stderr |-> <<>>,
     fuel |-> 0, now |-> 0, hash_order |-> "F", depth |-> 0, trace |-> <<>>]

Interpreter_is_truthy(literal) ==
    CASE literal.t = "None" -> FALSE
      [] literal.t = "Bool" -> literal.b
      [] OTHER -> TRUE

Interpreter_number_err(st) == IErr("Operand must be a number.", st)

RECURSIVE Interpreter_evaluate(_, _), Interpreter_execute(_, _)
RECURSIVE Interpreter_execute_block(_, _, _), Interpreter_try_for_each(_, _, _)
RECURSIVE Interpreter_arguments(_, _, _, _), Interpreter_while_loop(_, _)
RECURSIVE LoxFunction_call(_, _, _), LoxFunction_define_params(_, _, _, _, _)

\* the first environment from env up the chain that holds the name, or 0
RECURSIVE EnvHolding(_, _, _)
EnvHolding(st, env, lexeme) ==
    IF env = 0 THEN 0
    ELSE IF lexeme \in DOMAIN st.envs[env].values THEN env
    ELSE EnvHolding(st, st.envs[env].enclosing, lexeme)

\* the record of one look_up_variable: the environment the value r was found in
Lookup(node, found, r) ==
    IF r.sig # "ok" THEN r
    ELSE [r EXCEPT !.st = Emit(r.st,
              [ev |-> "lookup", name |-> ResolvableName(node).lexeme,
               distance |-> node.distance, environment |-> r.st.environment,
               found |-> found, value |-> r.val, envs |-> r.st.envs])]

\* look_up_variable were it to walk the environment chain from the current
\* environment, whatever the resolver recorded
Interpreter_look_up_variable_dynamic(node, st) ==
    Lookup(node, EnvHolding(st, st.environment, ResolvableName(node).lexeme),
           Environment_get(st, st.environment, ResolvableName(node)))

Interpreter_look_up_variable(node, st) ==
    IF node.distance # NoDistance
    THEN Lookup(node, EnvAt(st, st.environment, node.distance),
                Environment_get_at(st, st.environment, node.distance,
                                   ResolvableName(node).lexeme))
    ELSE Lookup(node, EnvHolding(st, st.globals, ResolvableName(node).lexeme),
                Environment_get(st, st.globals, ResolvableName(node)))

\* the record of one visit_assign_expr that assigned: the environments before
\* and after it
Assigned(expr, v, a) ==
    Emit(a.st, [ev |-> "assign", name |-> expr.name.lexeme, distance |-> expr.distance,
                environment |-> v.st.environment, value |-> v.val,
                before |-> v.st.envs, after |-> a.st.envs])

\* visit_assign_expr were it to walk the environment chain from the current
\* environment, whatever the resolver recorded
Interpreter_visit_assign_expr_dynamic(expr, st) ==
    IThen(Interpreter_evaluate(expr.value, st), LAMBDA v :
    IThen(Environment_assign(v.st, v.st.environment, expr.name, v.val), LAMBDA a :
    IOk(v.val, Assigned(expr, v, a))))

Interpreter_visit_assign_expr(expr, st) ==
    IThen(Interpreter_evaluate(expr.value, st), LAMBDA v :
    IThen(IF expr.distance # NoDistance
          THEN Environment_assign_at(v.st, v.st.environment, expr.distance, expr.name, v.val)
          ELSE Environment_assign(v.st, v.st.globals, expr.name, v.val), LAMBDA a :
    IOk(v.val, Assigned(expr, v, a))))

Interpreter_visit_unary_expr(expr, st) ==
    IThen(Interpreter_evaluate(expr.right, st), LAMBDA right :
    IF expr.operator.token_type = "Bang"
    THEN IOk(ObjBool(~Interpreter_is_truthy(right.val)), right.st)
    ELSE IF right.val.t = "Number" THEN IOk(ObjNumber(0 - right.val.n), right.st)
    ELSE Interpreter_number_err(right.st))

\* left == right, or left != right with negate: the Bool, or the stack overflow
Interpreter_equals(left, right, negate, st) ==
    With(Object_eq(left, right, st, {}), LAMBDA outcomes :
    With(IF Cardinality(outcomes) = 1 THEN CHOOSE o \in outcomes : TRUE
         ELSE st.hash_order, LAMBDA outcome :
    With(Emit(st, [ev |-> "equals", left |-> left, right |-> right,
                   outcome |-> outcome]), LAMBDA compared :
    IF outcome = "O" THEN IPanic("stack overflow", compared)
    ELSE IOk(ObjBool((outcome = "T") # negate), compared))))

\* the match of visit_binary_expr on the operator and the two operands
Interpreter_binary(tt, left, right, st) ==
    LET numbers == left.t = "Number" /\ right.t = "Number"
    IN  IF tt = "EqualEqual" THEN Interpreter_equals(left, right, FALSE, st)
        ELSE IF tt = "BangEqual" THEN Interpreter_equals(left, right, TRUE, st)
        ELSE IF tt = "Plus"
        THEN IF numbers THEN IOk(ObjNumber(left.n + right.n), st)
             ELSE IF left.t = "String" /\ right.t = "String"
             THEN IOk(ObjString(left.s \o right.s), st)
             ELSE IErr("Operands must be two numbers or two strings.", st)
        ELSE IF ~numbers THEN Interpreter_number_err(st)
        ELSE CASE tt = "Greater" -> IOk(ObjBool(left.n > right.n), st)
               [] tt = "GreaterEqual" -> IOk(ObjBool(left.n >= right.n), st)
               [] tt = "Less" -> IOk(ObjBool(left.n < right.n), st)
               [] tt = "LessEqual" -> IOk(ObjBool(left.n <= right.n), st)
               [] tt = "Minus" -> IOk(ObjNumber(left.n - right.n), st)
               [] tt = "Star" -> IOk(ObjNumber(left.n * right.n), st)
               [] tt = "Slash" ->
                     IF right.n = 0
                     THEN IErr("Attempt to divide " \o ToString(left.n) \o " by zero.", st)
                     ELSE IF (left.n \div right.n) * right.n = left.n
                     THEN IOk(ObjNumber(left.n \div right.n), st)
                     ELSE IBound(st)

Interpreter_visit_binary_expr(expr, st) ==
    IThen(Interpreter_evaluate(expr.left, st), LAMBDA left :
    IThen(Interpreter_evaluate(expr.right, left.st), LAMBDA right :
    Interpreter_binary(expr.operator.token_type, left.val, right.val, right.st)))

\* the loop of visit_call_expr over the arguments from argument i on; val is the list
Interpreter_arguments(arguments, i, values, st) ==
    IF i > Len(arguments) THEN IOk(values, st)
    ELSE IThen(Interpreter_evaluate(arguments[i], st), LAMBDA a :
               Interpreter_arguments(arguments, i + 1, Append(values, a.val), a.st))

\* the loop of LoxFunction::call that binds parameter i on; arguments[i] may panic
LoxFunction_define_params(params, arguments, i, env, st) ==
    IF i > Len(params) THEN IOk(ObjNone, st)
    ELSE IF i > Len(arguments) THEN IPanic("index out of bounds", st)
    ELSE LoxFunction_define_params(params, arguments, i + 1, env,
             Environment_define(st, env, params[i].lexeme, arguments[i]))

\* LoxFunction::call were its match to have no arm for RuntimeReturn: the return
\* signal leaves the call as any other Err does
LoxFunction_returned_uncaught(function, r, depth) ==
    LET left == [r.st EXCEPT !.depth = depth]
        this == Environment_get_at(left, function.closure, 0, "this")
        result == IF function.is_initializer THEN this.val ELSE ObjNone
    IN  IF r.sig # "ok" THEN [r EXCEPT !.st = left]
        ELSE IF function.is_initializer /\ this.sig # "ok" THEN this
        ELSE IOk(result,
                 IF function.is_initializer
                 THEN Emit(left, [ev |-> "initializer", exit |-> r.sig,
                                  result |-> result, closure |-> function.closure])
                 ELSE left)

\* LoxFunction::call were it to overlook is_initializer: init yields what any function
\* yields
LoxFunction_returned_plain(function, r, depth) ==
    LET left == [r.st EXCEPT !.depth = depth]
        result == IF r.sig = "ret" THEN r.val ELSE ObjNone
        caught == IF r.sig = "ret"
                  THEN Emit(left, [ev |-> "return_caught", value |-> r.val,
                                   result |-> result, raised |-> r.depth,
                                   caught |-> depth + 1,
                                   is_initializer |-> function.is_initializer])
                  ELSE left
    IN  IF r.sig \in {"err", "panic", "bound"} THEN [r EXCEPT !.st = left]
        ELSE IOk(result,
                 IF function.is_initializer
                 THEN Emit(caught, [ev |-> "initializer", exit |-> r.sig,
                                    result |-> result, closure |-> function.closure])
                 ELSE caught)

\* the match of LoxFunction::call on the result r of execute_block, and the rest of call
LoxFunction_returned(function, r, depth) ==
    LET left == [r.st EXCEPT !.depth = depth]
        this == Environment_get_at(left, function.closure, 0, "this")
        result == IF function.is_initializer THEN this.val
                  ELSE IF r.sig = "ret" THEN r.val ELSE ObjNone
        caught == IF r.sig = "ret"
                  THEN Emit(left, [ev |-> "return_caught", value |-> r.val,
                                   result |-> result, raised |-> r.depth,
                                   caught |-> depth + 1,
                                   is_initializer |-> function.is_initializer])
                  ELSE left
    IN  IF r.sig \in {"err", "panic", "bound"} THEN [r EXCEPT !.st = left]
        ELSE IF function.is_initializer /\ this.sig # "ok" THEN this
        ELSE IOk(result,
                 IF function.is_initializer
                 THEN Emit(caught, [ev |-> "initializer", exit |-> r.sig,
                                    result |-> result, closure |-> function.closure])
                 ELSE caught)

LoxFunction_call(function, arguments, st) ==
    With(Environment_new(st), LAMBDA env :
    IThen(LoxFunction_define_params(function.declaration.params, arguments, 1, env.env,
              Emit(Environment_set_enclosing(env.st, env.env, function.closure),
                   [ev |-> "invoke", callee |-> "Function",
                    arity |-> LoxFunction_arity(function), nargs |-> Len(arguments),
                    name |-> function.declaration.name.lexeme,
                    closure |-> function.closure, env |-> env.env,
                    envs |-> Len(st.envs)])),
          LAMBDA ps :
    IF st.fuel = 0 THEN IBound(st)
    ELSE With(Interpreter_execute_block(function.declaration.body, env.env,
                  [ps.st EXCEPT !.depth = @ + 1, !.fuel = @ - 1]), LAMBDA r :
         LoxFunction_returned(function, r, st.depth))))

\* LoxClass::call once the instance is made: the initializer, if any, and the result
LoxClass_initialize(initializer, instance, arguments, st) ==
    IThen(IF initializer.t # "None"
          THEN With(LoxFunction_bind(initializer, instance, st), LAMBDA bound :
                    LoxFunction_call(bound.fn, arguments, bound.st))
          ELSE IOk(ObjNone, st), LAMBDA r :
    IOk(ObjInstance(instance),
        Emit(r.st, [ev |-> "instantiated", instance |-> instance,
                    init |-> initializer.t # "None", init_result |-> r.val])))

LoxClass_call(class, arguments, st) ==
    With(LoxInstance_new(class,
             Emit(st, [ev |-> "invoke", callee |-> "Class",
                       arity |-> LoxClass_arity(class), nargs |-> Len(arguments)])),
         LAMBDA instance :
    LoxClass_initialize(LoxClass_find_method(class, "init"), instance.ref, arguments,
                        instance.st))

\* the match of visit_call_expr on the callee
Interpreter_call(callee, arguments, st) ==
    With(CASE callee.t = "Function" ->
                 IF Len(arguments) # LoxFunction_arity(callee)
                 THEN IErr("Expected " \o ToString(LoxFunction_arity(callee))
                           \o " arguments but got " \o ToString(Len(arguments)) \o ".",
                           st)
                 ELSE LoxFunction_call(callee, arguments, st)
           [] callee.t = "NativeFunction" -> NativeFunction_call(callee, arguments, st)
           [] callee.t = "Class" -> LoxClass_call(callee, arguments, st)
           [] OTHER -> IErr("Can only call functions and classes.", st), LAMBDA r :
    IF r.sig \in {"panic", "bound"} THEN r
    ELSE [r EXCEPT !.st = Emit(r.st, [ev |-> "call", before |-> st.environment,
                                      after |-> r.st.environment, sig |-> r.sig])])

Interpreter_visit_call_expr(expr, st) ==
    IThen(Interpreter_evaluate(expr.callee, st), LAMBDA callee :
    IThen(Interpreter_arguments(expr.arguments, 1, <<>>, callee.st), LAMBDA arguments :
    Interpreter_call(callee.val, arguments.val, arguments.st)))

Interpreter_visit_get_expr(expr, st) ==
    IThen(Interpreter_evaluate(expr.object, st), LAMBDA object :
    IF object.val.t = "Instance"
    THEN LoxInstance_get(object.st, object.val.ref, expr.name)
    ELSE IErr("Only instances have properties.", object.st))

\* whether anything a program can observe differs between two states
Moved(before, after) ==
    <<before.envs, before.insts, before.stdout, before.stderr>>
        # <<after.envs, after.insts, after.stdout, after.stderr>>

\* the record of one visit_logical_expr: the left value, the result r, and whether
\* the state moved after the left operand was evaluated
Interpreter_logical(expr, left, r) ==
    IF r.sig # "ok" THEN r
    ELSE [r EXCEPT !.st = Emit(r.st,
              [ev |-> "logical", operator |-> expr.operator.token_type,
               left |-> left.val, right |-> expr.right, result |-> r.val,
               moved |-> Moved(left.st, r.st)])]

\* visit_logical_expr were it to evaluate both operands before it chooses
Interpreter_visit_logical_expr_eager(expr, st) ==
    IThen(Interpreter_evaluate(expr.left, st), LAMBDA left :
    IThen(Interpreter_evaluate(expr.right, left.st), LAMBDA right :
    Interpreter_logical(expr, left,
        IF (expr.operator.token_type = "Or") = Interpreter_is_truthy(left.val)
        THEN IOk(left.val, right.st)
        ELSE right)))

Interpreter_visit_logical_expr(expr, st) ==
    IThen(Interpreter_evaluate(expr.left, st), LAMBDA left :
    Interpreter_logical(expr, left,
        IF expr.operator.token_type = "Or" /\ Interpreter_is_truthy(left.val) THEN left
        ELSE IF expr.operator.token_type # "Or" /\ ~Interpreter_is_truthy(left.val)
        THEN left
        ELSE Interpreter_evaluate(expr.right, left.st)))

Interpreter_visit_set_expr(expr, st) ==
    IThen(Interpreter_evaluate(expr.object, st), LAMBDA object :
    IF object.val.t = "Instance"
    THEN IThen(Interpreter_evaluate(expr.value, object.st), LAMBDA value :
         With(LoxInstance_set(value.st, object.val.ref, expr.name, value.val), LAMBDA after :
              IOk(value.val,
                  Emit(after, [ev |-> "set", name |-> expr.name.lexeme,
                               instance |-> object.val.ref, value |-> value.val,
                               before |-> value.st.insts, after |-> after.insts]))))
    ELSE IErr("Only instances have fields.", object.st))

\* the record of one visit_super_expr: the class read from super, the instance read
\* from this, the method found (ObjNone when none) and the function returned
Super(expr, superclass, object, method, function, st) ==
    Emit(st, [ev |-> "super", name |-> expr.method.lexeme, superclass |-> superclass,
              this |-> object, method |-> method, function |-> function])

\* visit_super_expr once the class superclass is read, and the rest of it
Interpreter_super_bind(expr, superclass, class, object, st) ==
    With(LoxClass_find_method(class, expr.method.lexeme), LAMBDA method :
    IF method.t = "None"
    THEN IErr("Undefined property '" \o expr.method.lexeme \o "'.",
              Super(expr, superclass, object, method, ObjNone, st))
    ELSE IF object.t # "Instance" THEN IPanic("this is not instance", st)
    ELSE With(LoxFunction_bind(method, object.ref, st), LAMBDA bound :
              IOk(bound.fn, Super(expr, superclass, object, method, bound.fn, bound.st))))

\* visit_super_expr were it to start the lookup at the superclass of the class of
\* this
Interpreter_super_method_of_this(expr, superclass, object, st) ==
    IF superclass.t # "Class" THEN IPanic("superclass is not class", st)
    ELSE IF object.t # "Instance" THEN IPanic("this is not instance", st)
    ELSE Interpreter_super_bind(expr, superclass,
                                st.insts[object.ref].class.superclass, object, st)

\* visit_super_expr once superclass and object are read
Interpreter_super_method(expr, superclass, object, st) ==
    IF superclass.t # "Class" THEN IPanic("superclass is not class", st)
    ELSE Interpreter_super_bind(expr, superclass, superclass, object, st)

Interpreter_visit_super_expr(expr, st) ==
    IF expr.distance = NoDistance THEN IPanic("unwrap on a None value", st)
    ELSE IThen(Environment_get_at(st, st.environment, expr.distance, "super"),
               LAMBDA superclass :
         IF expr.distance = 0 THEN IPanic("attempt to subtract with overflow", st)
         ELSE IThen(Environment_get_at(st, st.environment, expr.distance - 1, "this"),
                    LAMBDA object :
              Interpreter_super_method(expr, superclass.val, object.val, st)))

Interpreter_evaluate(expr, st) ==
    CASE expr.kind = "Assign" -> Interpreter_visit_assign_expr(expr, st)
      [] expr.kind = "Binary" -> Interpreter_visit_binary_expr(expr, st)
      [] expr.kind = "Call" -> Interpreter_visit_call_expr(expr, st)
      [] expr.kind = "Get" -> Interpreter_visit_get_expr(expr, st)
      [] expr.kind = "Grouping" -> Interpreter_evaluate(expr.expression, st)
      [] expr.kind = "Literal" -> IOk(expr.literal, st)
      [] expr.kind = "Logical" -> Interpreter_visit_logical_expr(expr, st)
      [] expr.kind = "Set" -> Interpreter_visit_set_expr(expr, st)
      [] expr.kind = "Super" -> Interpreter_visit_super_expr(expr, st)
      [] expr.kind \in {"This", "Variable"} -> Interpreter_look_up_variable(expr, st)
      [] expr.kind = "Unary" -> Interpreter_visit_unary_expr(expr, st)

\* stmts.iter().try_for_each(|stmt| self.execute(stmt)) from statement i on
Interpreter_try_for_each(stmts, i, st) ==
    IF i > Len(stmts) THEN IOk(ObjNone, st)
    ELSE IThen(Interpreter_execute(stmts[i], st), LAMBDA r :
               Interpreter_try_for_each(stmts, i + 1, r.st))

\* execute_block were it to leave out self.environment = previous
Interpreter_execute_block_unrestored(stmts, environment, st) ==
    With(Interpreter_try_for_each(stmts, 1, [st EXCEPT !.environment = environment]),
         LAMBDA ret :
    IF ret.sig \in {"panic", "bound"} THEN ret
    ELSE [ret EXCEPT !.st = Emit(ret.st,
              [ev |-> "block", before |-> st.environment,
               after |-> ret.st.environment, sig |-> ret.sig])])

Interpreter_execute_block(stmts, environment, st) ==
    With(Interpreter_try_for_each(stmts, 1, [st EXCEPT !.environment = environment]),
         LAMBDA ret :
    IF ret.sig \in {"panic", "bound"} THEN ret
    ELSE With([ret.st EXCEPT !.environment = st.environment], LAMBDA restored :
         [ret EXCEPT !.st = Emit(restored,
              [ev |-> "block", before |-> st.environment,
               after |-> restored.environment, sig |-> ret.sig])]))

Interpreter_visit_block_stmt(stmts, st) ==
    With(Environment_new(st), LAMBDA block_env :
    Interpreter_execute_block(stmts, block_env.env,
        Environment_set_enclosing(block_env.st, block_env.env, st.environment)))

\* the methods map of a class declaration: a later method of a name replaces an earlier
Interpreter_methods(class_declaration, environment) ==
    LET decls == class_declaration.methods
        last(m) == CHOOSE i \in DOMAIN decls :
                       /\ decls[i].name.lexeme = m
                       /\ \A j \in DOMAIN decls : decls[j].name.lexeme = m => j <= i
    IN  [m \in {decls[i].name.lexeme : i \in DOMAIN decls} |->
            ObjFunction(decls[last(m)], environment, m = "init")]

\* visit_class_declaration_stmt when the class has a superclass, from the define on
Interpreter_subclass(class_declaration, superclass_obj, st) ==
    With(Environment_new(Environment_define(st, st.environment,
             class_declaration.name.lexeme, ObjNone)), LAMBDA env :
    With([Environment_define(Environment_set_enclosing(env.st, env.env, st.environment),
                             env.env, "super", superclass_obj)
          EXCEPT !.environment = env.env], LAMBDA st2 :
    Environment_assign([st2 EXCEPT !.environment = st2.envs[st2.environment].enclosing],
        st2.envs[st2.environment].enclosing, class_declaration.name,
        ObjClass(class_declaration.name.lexeme, superclass_obj,
                 Interpreter_methods(class_declaration, st2.environment)))))

\* visit_class_declaration_stmt when the class has no superclass
Interpreter_class(class_declaration, st) ==
    Environment_assign(
        Environment_define(st, st.environment, class_declaration.name.lexeme, ObjNone),
        st.environment, class_declaration.name,
        ObjClass(class_declaration.name.lexeme, ObjNone,
                 Interpreter_methods(class_declaration, st.environment)))

Interpreter_visit_class_declaration_stmt(class_declaration, st) ==
    IThen(IF class_declaration.superclass.kind # "None"
          THEN IThen(Interpreter_look_up_variable(class_declaration.superclass, st),
                     LAMBDA superclass_obj :
                     IF superclass_obj.val.t # "Class"
                     THEN IErr("Superclass must be a class.", st)
                     ELSE Interpreter_subclass(class_declaration, superclass_obj.val, st))
          ELSE Interpreter_class(class_declaration, st), LAMBDA assigned :
    IOk(ObjNone, Emit(assigned.st,
            [ev |-> "class", before |-> st.environment,
             after |-> assigned.st.environment, sig |-> "ok"])))

\* the record of one function declaration: the environment it was executed in
Declaration(function_declaration, st) ==
    Emit(st, [ev |-> "function", name |-> function_declaration.name.lexeme,
              environment |-> st.environment])

\* visit_function_declaration_stmt were it to close over the globals
Interpreter_visit_function_declaration_stmt_globals(function_declaration, st) ==
    IOk(ObjNone, Environment_define(Declaration(function_declaration, st), st.environment,
                     function_declaration.name.lexeme,
                     ObjFunction(function_declaration, st.globals, FALSE)))

Interpreter_visit_function_declaration_stmt(function_declaration, st) ==
    IOk(ObjNone, Environment_define(Declaration(function_declaration, st), st.environment,
                     function_declaration.name.lexeme,
                     ObjFunction(function_declaration, st.environment, FALSE)))

Interpreter_visit_if_stmt(stmt, st) ==
    IThen(Interpreter_evaluate(stmt.condition, st), LAMBDA condition :
    IF Interpreter_is_truthy(condition.val)
    THEN Interpreter_execute(stmt.then_branch, condition.st)
    ELSE IF stmt.else_branch.kind # "None"
    THEN Interpreter_execute(stmt.else_branch, condition.st)
    ELSE IOk(ObjNone, condition.st))

\* the loop of visit_while_stmt, one iteration per unit of fuel
Interpreter_while_loop(stmt, st) ==
    IThen(Interpreter_evaluate(stmt.condition, st), LAMBDA condition :
    IF ~Interpreter_is_truthy(condition.val) THEN IOk(ObjNone, condition.st)
    ELSE IF condition.st.fuel = 0 THEN IBound(condition.st)
    ELSE IThen(Interpreter_execute(stmt.body, [condition.st EXCEPT !.fuel = @ - 1]),
               LAMBDA body : Interpreter_while_loop(stmt, body.st)))

Interpreter_visit_while_stmt(stmt, st) == Interpreter_while_loop(stmt, st)

Interpreter_visit_print_stmt(expr, st) ==
    IThen(Interpreter_evaluate(expr, st), LAMBDA tl :
    IOk(ObjNone, [tl.st EXCEPT !.stdout = Append(@, Display(tl.val, tl.st))]))

Interpreter_visit_return_stmt(value, st) ==
    IThen(IF value.kind # "None" THEN Interpreter_evaluate(value, st)
          ELSE IOk(ObjNone, st), LAMBDA ret_value :
    IRet(ret_value.val,
         Emit(ret_value.st, [ev |-> "return", bare |-> value.kind = "None",
                             value |-> ret_value.val, depth |-> ret_value.st.depth])))

Interpreter_visit_var_stmt(name, initializer, st) ==
    IThen(IF initializer.kind # "None" THEN Interpreter_evaluate(initializer, st)
          ELSE IOk(ObjNone, st), LAMBDA value :
    IOk(ObjNone, Environment_define(value.st, value.st.environment, name.lexeme, value.val)))

Interpreter_visit_expression_stmt(expr, st) ==
    IThen(Interpreter_evaluate(expr, st), LAMBDA r : IOk(ObjNone, r.st))

Interpreter_execute(stmt, st) ==
    CASE stmt.kind = "Block" -> Interpreter_visit_block_stmt(stmt.statements, st)
      [] stmt.kind = "ClassDeclaration" -> Interpreter_visit_class_declaration_stmt(stmt, st)
      [] stmt.kind = "Expression" -> Interpreter_visit_expression_stmt(stmt.expression, st)
      [] stmt.kind = "If" -> Interpreter_visit_if_stmt(stmt, st)
      [] stmt.kind = "While" -> Interpreter_visit_while_stmt(stmt, st)
      [] stmt.kind = "Print" -> Interpreter_visit_print_stmt(stmt.expression, st)
      [] stmt.kind = "Var" -> Interpreter_visit_var_stmt(stmt.name, stmt.initializer, st)
      [] stmt.kind = "FunctionDeclaration" ->
             Interpreter_visit_function_declaration_stmt(stmt, st)
      [] stmt.kind = "Return" -> Interpreter_visit_return_stmt(stmt.value, st)

\* interpret were a runtime error to leave the interpreter with new globals
Interpreter_interpret_new_globals(statement, st) ==
    With(Interpreter_execute(statement, st), LAMBDA r :
    IF r.sig \in {"err", "ret"}
    THEN [r EXCEPT !.st = [r.st EXCEPT !.stderr = Append(@, r.message),
                                       !.had_runtime_error = TRUE,
                                       !.envs[r.st.globals] = Interpreter_new.envs[1]]]
    ELSE r)

\* one iteration of the loop of Interpreter::interpret on a statement
Interpreter_interpret(statement, st) ==
    With(Interpreter_execute(statement, st), LAMBDA r :
    IF r.sig \in {"err", "ret"}
    THEN [r EXCEPT !.st = [r.st EXCEPT !.stderr = Append(@, r.message),
                                       !.had_runtime_error = TRUE]]
    ELSE r)

(***************************************************************************)
(* The source texts the driver is run on, each the sequence of its         *)
(* lexemes: scripts for run_file, and sessions of lines for run_prompt.    *)
(***************************************************************************)
\* print 1 ; print 2 ;
PrintTwice ==
    <<"print", "1", ";", "print", "2", ";">>

\* print 1 ; print ;
ParseErrorAfterPrint ==
    <<"print", "1", ";", "print", ";">>

\* print - "A" ; print 2 ;
RuntimeErrorThenPrint ==
    <<"print", "-", "\"A\"", ";", "print", "2", ";">>

\* print clock ( 1 ) ; print clock ( ) ;
NativeArity ==
    <<"print", "clock", "(", "1", ")", ";", "print", "clock", "(", ")", ";">>

\* class A { } print A ( 1 ) ;
ClassArityNoInit ==
    <<"class", "A", "{", "}", "print", "A", "(", "1", ")", ";">>

\* class A { init ( x ) { } } A ( ) ; print 2 ;
ClassArityInit ==
    <<"class", "A", "{", "init", "(", "x", ")", "{", "}", "}", "A", "(", ")", ";",
      "print", "2", ";">>

\* class A { init ( ) { print 1 ; } } print A ( 1 , 2 ) ;
ClassArityInitMany ==
    <<"class", "A", "{", "init", "(", ")", "{", "print", "1", ";", "}", "}", "print",
      "A", "(", "1", ",", "2", ")", ";">>

\* fun f ( a ) { print a ; } f ( ) ; f ( 1 , 2 ) ; f ( 3 ) ;
FunctionArity ==
    <<"fun", "f", "(", "a", ")", "{", "print", "a", ";", "}", "f", "(", ")", ";", "f",
      "(", "1", ",", "2", ")", ";", "f", "(", "3", ")", ";">>

\* class A { } print A ( ) == A ( ) ; var a = A ( ) ; a . x = 1 ; print a != A ( ) ;
EqualInstances ==
    <<"class", "A", "{", "}", "print", "A", "(", ")", "==", "A", "(", ")", ";", "var",
      "a", "=", "A", "(", ")", ";", "a", ".", "x", "=", "1", ";", "print", "a", "!=",
      "A", "(", ")", ";">>

\* class A { m ( ) { } } var a = A ( ) ; print a . m == a . m ;
EqualBoundMethods ==
    <<"class", "A", "{", "m", "(", ")", "{", "}", "}", "var", "a", "=", "A", "(", ")",
      ";", "print", "a", ".", "m", "==", "a", ".", "m", ";">>

\* fun f ( ) { } var g = f ; print f == g ;
EqualFunctions ==
    <<"fun", "f", "(", ")", "{", "}", "var", "g", "=", "f", ";", "print", "f", "==", "g",
      ";">>

\* fun f ( ) { } fun g ( ) { } print f == g ; print f != 1 ; print nil == nil ;
EqualDistinctFunctions ==
    <<"fun", "f", "(", ")", "{", "}", "fun", "g", "(", ")", "{", "}", "print", "f", "==",
      "g", ";", "print", "f", "!=", "1", ";", "print", "nil", "==", "nil", ";">>

\* class A { } fun f ( ) { } var a = A ( ) ; var b = A ( ) ; a . x = 1 ; b . x = 2 ; a . f = f ; b . f = f ; print a == b ;
EqualFieldsRace ==
    <<"class", "A", "{", "}", "fun", "f", "(", ")", "{", "}", "var", "a", "=", "A", "(",
      ")", ";", "var", "b", "=", "A", "(", ")", ";", "a", ".", "x", "=", "1", ";", "b",
      ".", "x", "=", "2", ";", "a", ".", "f", "=", "f", ";", "b", ".", "f", "=", "f",
      ";", "print", "a", "==", "b", ";">>

\* fun f ( ) { { return 1 ; } } print f ( ) ; print 2 ;
ReturnInBlock ==
    <<"fun", "f", "(", ")", "{", "{", "return", "1", ";", "}", "}", "print", "f", "(",
      ")", ";", "print", "2", ";">>

\* { var a = 1 ; { print - "A" ; } } print 2 ;
ErrorInBlock ==
    <<"{", "var", "a", "=", "1", ";", "{", "print", "-", "\"A\"", ";", "}", "}", "print",
      "2", ";">>

\* fun f ( ) { { nil ( ) ; } } f ( ) ; print 2 ;
ErrorInFunction ==
    <<"fun", "f", "(", ")", "{", "{", "nil", "(", ")", ";", "}", "}", "f", "(", ")", ";",
      "print", "2", ";">>

\* fun f ( ) { { return 1 ; } } fun g ( ) { { nil ( ) ; } } { print f ( ) ; } g ( ) ;
BlockExits ==
    <<"fun", "f", "(", ")", "{", "{", "return", "1", ";", "}", "}", "fun", "g", "(", ")",
      "{", "{", "nil", "(", ")", ";", "}", "}", "{", "print", "f", "(", ")", ";", "}",
      "g", "(", ")", ";">>

\* fun g ( ) { return 2 ; } fun f ( ) { print g ( ) ; return ; } print f ( ) ;
NestedReturns ==
    <<"fun", "g", "(", ")", "{", "return", "2", ";", "}", "fun", "f", "(", ")", "{",
      "print", "g", "(", ")", ";", "return", ";", "}", "print", "f", "(", ")", ";">>

\* class A { init ( ) { return ; } } fun g ( ) { return 2 ; } fun f ( ) { print g ( ) ; return ; } print f ( ) ; print A ( ) ;
ReturnKinds ==
    <<"class", "A", "{", "init", "(", ")", "{", "return", ";", "}", "}", "fun", "g", "(",
      ")", "{", "return", "2", ";", "}", "fun", "f", "(", ")", "{", "print", "g", "(",
      ")", ";", "return", ";", "}", "print", "f", "(", ")", ";", "print", "A", "(", ")",
      ";">>

\* fun f ( n ) { while ( true ) { if ( n > 1 ) return n ; n = n + 1 ; } } print f ( 0 ) ;
ReturnInLoop ==
    <<"fun", "f", "(", "n", ")", "{", "while", "(", "true", ")", "{", "if", "(", "n",
      ">", "1", ")", "return", "n", ";", "n", "=", "n", "+", "1", ";", "}", "}", "print",
      "f", "(", "0", ")", ";">>

\* class A { init ( ) { return ; } } print A ( ) ; print A ( ) . init ( ) ;
InitBareReturn ==
    <<"class", "A", "{", "init", "(", ")", "{", "return", ";", "}", "}", "print", "A",
      "(", ")", ";", "print", "A", "(", ")", ".", "init", "(", ")", ";">>

\* class A { init ( ) { this . x = 1 ; } } var a = A ( ) ; print a . init ( ) ; print a . x ;
InitNormal ==
    <<"class", "A", "{", "init", "(", ")", "{", "this", ".", "x", "=", "1", ";", "}",
      "}", "var", "a", "=", "A", "(", ")", ";", "print", "a", ".", "init", "(", ")", ";",
      "print", "a", ".", "x", ";">>

\* class A { init ( ) { return ; } } class B { init ( ) { } } print A ( ) . init ( ) ; print B ( ) . init ( ) ;
InitExits ==
    <<"class", "A", "{", "init", "(", ")", "{", "return", ";", "}", "}", "class", "B",
      "{", "init", "(", ")", "{", "}", "}", "print", "A", "(", ")", ".", "init", "(",
      ")", ";", "print", "B", "(", ")", ".", "init", "(", ")", ";">>

\* print 1 ; return ; { var a = 1 ; var a = 2 ; }
ResolveErrors ==
    <<"print", "1", ";", "return", ";", "{", "var", "a", "=", "1", ";", "var", "a", "=",
      "2", ";", "}">>

\* fun f ( ) { { var a ; var a ; } } print 1 ; return 1 ;
ResolveErrorNested ==
    <<"fun", "f", "(", ")", "{", "{", "var", "a", ";", "var", "a", ";", "}", "}",
      "print", "1", ";", "return", "1", ";">>

\* print 1 ; class A { m ( ) { var b = b ; } } print this ;
ResolveErrorInMethod ==
    <<"print", "1", ";", "class", "A", "{", "m", "(", ")", "{", "var", "b", "=", "b",
      ";", "}", "}", "print", "this", ";">>

\* fun f ( a , a ) { } return ;
DuplicateParamThenReturn ==
    <<"fun", "f", "(", "a", ",", "a", ")", "{", "}", "return", ";">>

\* fun f ( a , a ) { } print a ;
DuplicateParamThenRead ==
    <<"fun", "f", "(", "a", ",", "a", ")", "{", "}", "print", "a", ";">>

\* if ( true ) ( a ) = 1 ; else print 2 ; print 3 ;
InvalidTargetInIf ==
    <<"if", "(", "true", ")", "(", "a", ")", "=", "1", ";", "else", "print", "2", ";",
      "print", "3", ";">>

\* 1 = 2 ; print 3 ;
InvalidTarget ==
    <<"1", "=", "2", ";", "print", "3", ";">>

\* print 1 ; f ( 1 + 2 = 3 , 4 ) ; print 5 ;
InvalidTargetInCall ==
    <<"print", "1", ";", "f", "(", "1", "+", "2", "=", "3", ",", "4", ")", ";", "print",
      "5", ";">>

\* var a = 1 ; { var b = 2 ; { print a + b ; b = 3 ; a = 4 ; } fun f ( c ) { print b + c ; } f ( 1 ) ; }
Scopes ==
    <<"var", "a", "=", "1", ";", "{", "var", "b", "=", "2", ";", "{", "print", "a", "+",
      "b", ";", "b", "=", "3", ";", "a", "=", "4", ";", "}", "fun", "f", "(", "c", ")",
      "{", "print", "b", "+", "c", ";", "}", "f", "(", "1", ")", ";", "}">>

\* { var a = 1 ; { var a = 2 ; print a ; } print a ; }
Shadowing ==
    <<"{", "var", "a", "=", "1", ";", "{", "var", "a", "=", "2", ";", "print", "a", ";",
      "}", "print", "a", ";", "}">>

\* class A { m ( ) { return 1 ; } } class B < A { m ( ) { return super . m ( ) + 1 ; } } print B ( ) . m ( ) ;
Inheritance ==
    <<"class", "A", "{", "m", "(", ")", "{", "return", "1", ";", "}", "}", "class", "B",
      "<", "A", "{", "m", "(", ")", "{", "return", "super", ".", "m", "(", ")", "+", "1",
      ";", "}", "}", "print", "B", "(", ")", ".", "m", "(", ")", ";">>

\* class A { m ( x ) { { print this ; return x ; } } } print A ( ) . m ( 1 ) ;
MethodThis ==
    <<"class", "A", "{", "m", "(", "x", ")", "{", "{", "print", "this", ";", "return",
      "x", ";", "}", "}", "}", "print", "A", "(", ")", ".", "m", "(", "1", ")", ";">>

\* for ( var i = 0 ; i < 2 ; i = i + 1 ) print i ;
ForLoopScript ==
    <<"for", "(", "var", "i", "=", "0", ";", "i", "<", "2", ";", "i", "=", "i", "+", "1",
      ")", "print", "i", ";">>

\* var a = nil ; print a or "A" ; print a and 1 ; print ! a ; print 6 / 2 - 1 * 2 ;
Logical ==
    <<"var", "a", "=", "nil", ";", "print", "a", "or", "\"A\"", ";", "print", "a", "and",
      "1", ";", "print", "!", "a", ";", "print", "6", "/", "2", "-", "1", "*", "2", ";">>

\* fun make ( ) { var n = 0 ; fun inc ( ) { n = n + 1 ; return n ; } return inc ; } var c = make ( ) ; var d = make ( ) ; print c ( ) ; print c ( ) ; print c ( ) ; print d ( ) ;
Counters ==
    <<"fun", "make", "(", ")", "{", "var", "n", "=", "0", ";", "fun", "inc", "(", ")",
      "{", "n", "=", "n", "+", "1", ";", "return", "n", ";", "}", "return", "inc", ";",
      "}", "var", "c", "=", "make", "(", ")", ";", "var", "d", "=", "make", "(", ")",
      ";", "print", "c", "(", ")", ";", "print", "c", "(", ")", ";", "print", "c", "(",
      ")", ";", "print", "d", "(", ")", ";">>

\* var a = "global" ; { fun show ( ) { print a ; } show ( ) ; var a = "block" ; show ( ) ; }
StaticScope ==
    <<"var", "a", "=", "\"global\"", ";", "{", "fun", "show", "(", ")", "{", "print",
      "a", ";", "}", "show", "(", ")", ";", "var", "a", "=", "\"block\"", ";", "show",
      "(", ")", ";", "}">>

\* class Z { z ( ) { return 6 ; } } class A < Z { m ( ) { return this ; } } class B < A { m ( ) { return 2 ; } t ( ) { return super . m ( ) ; } u ( ) { return super . x ; } v ( ) { return super . z ( ) ; } } class C < B { m ( ) { return 3 ; } } print C ( ) . t ( ) ; C ( ) . u ( ) ; print C ( ) . v ( ) ;
SuperLookup ==
    <<"class", "Z", "{", "z", "(", ")", "{", "return", "6", ";", "}", "}", "class", "A",
      "<", "Z", "{", "m", "(", ")", "{", "return", "this", ";", "}", "}", "class", "B",
      "<", "A", "{", "m", "(", ")", "{", "return", "2", ";", "}", "t", "(", ")", "{",
      "return", "super", ".", "m", "(", ")", ";", "}", "u", "(", ")", "{", "return",
      "super", ".", "x", ";", "}", "v", "(", ")", "{", "return", "super", ".", "z", "(",
      ")", ";", "}", "}", "class", "C", "<", "B", "{", "m", "(", ")", "{", "return", "3",
      ";", "}", "}", "print", "C", "(", ")", ".", "t", "(", ")", ";", "C", "(", ")", ".",
      "u", "(", ")", ";", "print", "C", "(", ")", ".", "v", "(", ")", ";">>

\* class A { m ( ) { return this . x ; } } var a = A ( ) ; a . x = 1 ; var b = A ( ) ; b . x = 2 ; var f = a . m ; var g = a . m ; var h = b . m ; b . k = f ; print f ( ) ; print g ( ) ; print h ( ) ; print b . k ( ) ;
BoundMethods ==
    <<"class", "A", "{", "m", "(", ")", "{", "return", "this", ".", "x", ";", "}", "}",
      "var", "a", "=", "A", "(", ")", ";", "a", ".", "x", "=", "1", ";", "var", "b", "=",
      "A", "(", ")", ";", "b", ".", "x", "=", "2", ";", "var", "f", "=", "a", ".", "m",
      ";", "var", "g", "=", "a", ".", "m", ";", "var", "h", "=", "b", ".", "m", ";", "b",
      ".", "k", "=", "f", ";", "print", "f", "(", ")", ";", "print", "g", "(", ")", ";",
      "print", "h", "(", ")", ";", "print", "b", ".", "k", "(", ")", ";">>

\* class A { m ( ) { return 1 ; } n ( ) { return 2 ; } } class B < A { n ( ) { return 3 ; } } var b = B ( ) ; print b . m ( ) ; print b . n ( ) ; b . m = 4 ; print b . m ; print b . x ;
PropertyRead ==
    <<"class", "A", "{", "m", "(", ")", "{", "return", "1", ";", "}", "n", "(", ")", "{",
      "return", "2", ";", "}", "}", "class", "B", "<", "A", "{", "n", "(", ")", "{",
      "return", "3", ";", "}", "}", "var", "b", "=", "B", "(", ")", ";", "print", "b",
      ".", "m", "(", ")", ";", "print", "b", ".", "n", "(", ")", ";", "b", ".", "m", "=",
      "4", ";", "print", "b", ".", "m", ";", "print", "b", ".", "x", ";">>

\* class A { s ( v ) { this . x = v ; } g ( ) { return this . x ; } } fun w ( o , v ) { o . x = v ; } var a = A ( ) ; var b = a ; var c = A ( ) ; c . x = 0 ; a . x = 1 ; print b . x ; b . s ( 2 ) ; print a . x ; w ( a , 3 ) ; print b . g ( ) ; print c . x ;
SharedInstance ==
    <<"class", "A", "{", "s", "(", "v", ")", "{", "this", ".", "x", "=", "v", ";", "}",
      "g", "(", ")", "{", "return", "this", ".", "x", ";", "}", "}", "fun", "w", "(",
      "o", ",", "v", ")", "{", "o", ".", "x", "=", "v", ";", "}", "var", "a", "=", "A",
      "(", ")", ";", "var", "b", "=", "a", ";", "var", "c", "=", "A", "(", ")", ";", "c",
      ".", "x", "=", "0", ";", "a", ".", "x", "=", "1", ";", "print", "b", ".", "x", ";",
      "b", ".", "s", "(", "2", ")", ";", "print", "a", ".", "x", ";", "w", "(", "a", ",",
      "3", ")", ";", "print", "b", ".", "g", "(", ")", ";", "print", "c", ".", "x", ";">>

\* var a = 1 ; var a = 2 ; print a ; fun a ( ) { } class a { } print a ;
GlobalRedeclared ==
    <<"var", "a", "=", "1", ";", "var", "a", "=", "2", ";", "print", "a", ";", "fun",
      "a", "(", ")", "{", "}", "class", "a", "{", "}", "print", "a", ";">>

\* { var a ; var a ; } { fun f ( ) { } fun f ( ) { } } { class A { } class A { } } fun h ( p ) { var p ; } class B { m ( p , p ) { } }
Redeclarations ==
    <<"{", "var", "a", ";", "var", "a", ";", "}", "{", "fun", "f", "(", ")", "{", "}",
      "fun", "f", "(", ")", "{", "}", "}", "{", "class", "A", "{", "}", "class", "A",
      "{", "}", "}", "fun", "h", "(", "p", ")", "{", "var", "p", ";", "}", "class", "B",
      "{", "m", "(", "p", ",", "p", ")", "{", "}", "}">>

\* fun f ( a , a ) { } var b ; var b ;
DuplicateParamThenGlobals ==
    <<"fun", "f", "(", "a", ",", "a", ")", "{", "}", "var", "b", ";", "var", "b", ";">>

\* class A { init ( ) { return ; } } class B { init ( ) { fun g ( ) { return 1 ; } return ; } } class C { init ( ) { return 1 ; } } class D { init ( ) { fun g ( ) { } return 2 ; } m ( ) { return 3 ; } } return ; { return 3 ; } if ( true ) return ; while ( false ) return ;
Returns ==
    <<"class", "A", "{", "init", "(", ")", "{", "return", ";", "}", "}", "class", "B",
      "{", "init", "(", ")", "{", "fun", "g", "(", ")", "{", "return", "1", ";", "}",
      "return", ";", "}", "}", "class", "C", "{", "init", "(", ")", "{", "return", "1",
      ";", "}", "}", "class", "D", "{", "init", "(", ")", "{", "fun", "g", "(", ")", "{",
      "}", "return", "2", ";", "}", "m", "(", ")", "{", "return", "3", ";", "}", "}",
      "return", ";", "{", "return", "3", ";", "}", "if", "(", "true", ")", "return", ";",
      "while", "(", "false", ")", "return", ";">>

\* print 3 ; print 3 ;
PrintThreeTwice ==
    <<"print", "3", ";", "print", "3", ";">>

\* var 1 = 2 ; ( 1 2 print 3 ; ( print 1 ; print 3 ;
Synchronize ==
    <<"var", "1", "=", "2", ";", "(", "1", "2", "print", "3", ";", "(", "print", "1",
      ";", "print", "3", ";">>

\* var i = "A" ; for ( var i = 0 ; i < 3 ; i = i + 1 ) print i ; print i ; for ( var j = 5 ; j < 3 ; j = j + 1 ) print j ; print j ;
ForLoops ==
    <<"var", "i", "=", "\"A\"", ";", "for", "(", "var", "i", "=", "0", ";", "i", "<",
      "3", ";", "i", "=", "i", "+", "1", ")", "print", "i", ";", "print", "i", ";",
      "for", "(", "var", "j", "=", "5", ";", "j", "<", "3", ";", "j", "=", "j", "+", "1",
      ")", "print", "j", ";", "print", "j", ";">>

\* var i = "A" ; { var i = 0 ; while ( i < 3 ) { print i ; i = i + 1 ; } } print i ; { var j = 5 ; while ( j < 3 ) { print j ; j = j + 1 ; } } print j ;
ForLoopsAsWhile ==
    <<"var", "i", "=", "\"A\"", ";", "{", "var", "i", "=", "0", ";", "while", "(", "i",
      "<", "3", ")", "{", "print", "i", ";", "i", "=", "i", "+", "1", ";", "}", "}",
      "print", "i", ";", "{", "var", "j", "=", "5", ";", "while", "(", "j", "<", "3",
      ")", "{", "print", "j", ";", "j", "=", "j", "+", "1", ";", "}", "}", "print", "j",
      ";">>

\* fun f ( n ) { for ( ; ; ) { if ( n > 1 ) return n ; n = n + 1 ; } } print f ( 0 ) ;
ForNoClauses ==
    <<"fun", "f", "(", "n", ")", "{", "for", "(", ";", ";", ")", "{", "if", "(", "n",
      ">", "1", ")", "return", "n", ";", "n", "=", "n", "+", "1", ";", "}", "}", "print",
      "f", "(", "0", ")", ";">>

\* print 1 ; @ print 2 ;
ScanError ==
    <<"print", "1", ";", "@", "print", "2", ";">>

\* @
ScanErrorOnly ==
    <<"@">>

\* var a = "global" ; { var a = 1 ; { fun f ( ) { print a ; a = a + 1 ; } var a = 5 ; f ( ) ; f ( ) ; print a ; } print a ; } { fun g ( ) { print a ; a = "x" ; } var a = 3 ; g ( ) ; print a ; } print a ;
Distances ==
    <<"var", "a", "=", "\"global\"", ";", "{", "var", "a", "=", "1", ";", "{", "fun",
      "f", "(", ")", "{", "print", "a", ";", "a", "=", "a", "+", "1", ";", "}", "var",
      "a", "=", "5", ";", "f", "(", ")", ";", "f", "(", ")", ";", "print", "a", ";", "}",
      "print", "a", ";", "}", "{", "fun", "g", "(", ")", "{", "print", "a", ";", "a",
      "=", "\"x\"", ";", "}", "var", "a", "=", "3", ";", "g", "(", ")", ";", "print",
      "a", ";", "}", "print", "a", ";">>

\* class A < A { } print this ;
InheritSelfThenThis ==
    <<"class", "A", "<", "A", "{", "}", "print", "this", ";">>

\* class A { m ( a , a ) { } } print super . x ;
DuplicateParamInMethodThenSuper ==
    <<"class", "A", "{", "m", "(", "a", ",", "a", ")", "{", "}", "}", "print", "super",
      ".", "x", ";">>

\* { var a ; var a ; } fun f ( ) { { return ; var b = b ; } } class A { m ( ) { print super . x ; } }
ErrorsInBlocks ==
    <<"{", "var", "a", ";", "var", "a", ";", "}", "fun", "f", "(", ")", "{", "{",
      "return", ";", "var", "b", "=", "b", ";", "}", "}", "class", "A", "{", "m", "(",
      ")", "{", "print", "super", ".", "x", ";", "}", "}">>

\* { var a = a = 1 ; print a ; }
AssignInOwnInitializer ==
    <<"{", "var", "a", "=", "a", "=", "1", ";", "print", "a", ";", "}">>

\* print 1 ; ) print 2 ; + ; print
ParseErrors ==
    <<"print", "1", ";", ")", "print", "2", ";", "+", ";", "print">>

\* var a = 1 ; print 1 or ( a = 2 ) ; print nil and ( a = 3 ) ; print a ; print nil or "B" ; print 1 and 2 ; print false or ( a = 4 ) ;
ShortCircuit ==
    <<"var", "a", "=", "1", ";", "print", "1", "or", "(", "a", "=", "2", ")", ";",
      "print", "nil", "and", "(", "a", "=", "3", ")", ";", "print", "a", ";", "print",
      "nil", "or", "\"B\"", ";", "print", "1", "and", "2", ";", "print", "false", "or",
      "(", "a", "=", "4", ")", ";">>

\* fun make ( ) { var n = 0 ; fun inc ( ) { n = n + 1 ; return n ; } return inc ; } var c = make ( ) ; print c ( ) ; print c ( ) ;
Counter ==
    <<"fun", "make", "(", ")", "{", "var", "n", "=", "0", ";", "fun", "inc", "(", ")",
      "{", "n", "=", "n", "+", "1", ";", "return", "n", ";", "}", "return", "inc", ";",
      "}", "var", "c", "=", "make", "(", ")", ";", "print", "c", "(", ")", ";", "print",
      "c", "(", ")", ";">>

\* > var a = 1 ;
\* > print a ;
SessionDefineThenRead ==
    <<<<"var", "a", "=", "1", ";">>,
      <<"print", "a", ";">>>>

\* > var a = 1 ; print - "A" ;
\* > print a ;
SessionRuntimeError ==
    <<<<"var", "a", "=", "1", ";", "print", "-", "\"A\"", ";">>,
      <<"print", "a", ";">>>>

\* > var a = 1 ; fun f ( ) { var b = 2 ; { a = 3 ; print - "A" ; } }
\* > f ( ) ;
\* > print a ; var c = a + 1 ; print c ;
SessionErrorInFunction ==
    <<<<"var", "a", "=", "1", ";", "fun", "f", "(", ")", "{", "var", "b", "=", "2", ";", "{",
  "a", "=", "3", ";", "print", "-", "\"A\"", ";", "}", "}">>,
      <<"f", "(", ")", ";">>,
      <<"print", "a", ";", "var", "c", "=", "a", "+", "1", ";", "print", "c", ";">>>>

\* > print ;
\* > print 1 ;
SessionParseError ==
    <<<<"print", ";">>,
      <<"print", "1", ";">>>>

Scripts ==
    {PrintTwice, ParseErrorAfterPrint, RuntimeErrorThenPrint, NativeArity,
     ClassArityNoInit, ClassArityInit, ClassArityInitMany, FunctionArity,
     EqualInstances, EqualBoundMethods, EqualFunctions, EqualDistinctFunctions,
     EqualFieldsRace, ReturnInBlock, ErrorInBlock, ErrorInFunction, BlockExits,
     NestedReturns, ReturnKinds, ReturnInLoop, InitBareReturn, InitNormal, InitExits,
     ResolveErrors, ResolveErrorNested, ResolveErrorInMethod, DuplicateParamThenReturn,
     DuplicateParamThenRead, InvalidTargetInIf, InvalidTarget, InvalidTargetInCall,
     Scopes, Shadowing, Inheritance, MethodThis, ForLoopScript, Logical, Counters,
     StaticScope, SuperLookup, BoundMethods, PropertyRead, SharedInstance,
     GlobalRedeclared, Redeclarations, DuplicateParamThenGlobals, Returns,
     PrintThreeTwice, Synchronize, ForLoops, ForLoopsAsWhile, ForNoClauses, ScanError,
     ScanErrorOnly, Distances, InheritSelfThenThis, DuplicateParamInMethodThenSuper,
     ErrorsInBlocks, AssignInOwnInitializer, ParseErrors, ShortCircuit, Counter}

Sessions ==
    {SessionDefineThenRead, SessionRuntimeError, SessionErrorInFunction,
     SessionParseError}

Inputs ==
    {[mode |-> "file", lines |-> <<script>>] : script \in Scripts}
        \cup {[mode |-> "prompt", lines |-> session] : session \in Sessions}

(***************************************************************************)
(* lox.rs: the driver.  pc is the place the process is at: "start"         *)
(* (run_with_args), "prompt" (the read of run_prompt's loop), "run"        *)
(* (entering Lox::run), "parse", "resolve", "interpret" (the loops of      *)
(* Parser::parse, Resolver::resolve, Interpreter::interpret), "done"       *)
(* (Lox::run returns), "exit", and "panic" / "bound" where a statement     *)
(* ended the process or exceeded MaxSteps.                                 *)
(* input is [mode, lines]: the texts not read yet.  log is the history of  *)
(* the current run: the parse errors written to standard error with the    *)
(* parser position where each was raised and where parsing resumed, the    *)
(* cursor of the resolve / interpret loop, what resolve did to each        *)
(* top-level statement, and which statements interpret executed.           *)
(***************************************************************************)
NewLog(run) ==
    [run |-> run, scan_errors |-> 0, parse_errors |-> <<>>, iterations |-> <<>>,
     cursor |-> 1, resolved |-> <<>>, executed |-> <<>>]

Init ==
    /\ pc = "start"
    /\ input \in Inputs
    /\ tokens = <<>>
    /\ parser = Parser_new(<<>>)
    /\ statements = <<>>
    /\ resolver = Resolver_new
    /\ interpreter = Interpreter_new
    /\ log = NewLog(0)

\* run_with_args with a script path: run_file reads the file and runs it
RunFile ==
    /\ pc = "start" /\ input.mode = "file"
    /\ pc' = "run"
    /\ UNCHANGED <<input, tokens, parser, statements, resolver, interpreter, log>>

\* run_with_args without arguments: run_prompt
RunPrompt ==
    /\ pc = "start" /\ input.mode = "prompt"
    /\ pc' = "prompt"
    /\ UNCHANGED <<input, tokens, parser, statements, resolver, interpreter, log>>

\* run_prompt reads a line
PromptReadLine ==
    /\ pc = "prompt" /\ input.lines # <<>>
    /\ pc' = "run"
    /\ UNCHANGED <<input, tokens, parser, statements, resolver, interpreter, log>>

\* run_prompt reads end of input
PromptEof ==
    /\ pc = "prompt" /\ input.lines = <<>>
    /\ pc' = "exit"
    /\ UNCHANGED <<input, tokens, parser, statements, resolver, interpreter, log>>

\* Lox::run up to Parser::new
RunScan ==
    /\ pc = "run"
    /\ tokens' = Scanner_scan_tokens(Head(input.lines))
    /\ parser' = Parser_new(tokens')
    /\ statements' = <<>>
    /\ input' = [input EXCEPT !.lines = Tail(@)]
    /\ log' = [NewLog(log.run + 1) EXCEPT
                   !.scan_errors = Len(Scanner_errors(Head(input.lines)))]
    /\ pc' = "parse"
    /\ UNCHANGED <<resolver, interpreter>>

\* whether the last token of the parser is Eof
EndsWithEof(p) ==
    p.tokens # <<>> /\ p.tokens[Len(p.tokens)].token_type = "Eof"

\* Parser::parse on tokens with no Eof: is_at_end is peek().token_type == Eof and
\* peek is tokens[current], so nothing stops the parser before the end of the
\* tokens, and the declaration it is in, or the next test of the loop, indexes
\* the tokens at their length: the process panics before parse returns
ParsePanic ==
    /\ pc = "parse" /\ ~EndsWithEof(parser)
    /\ pc' = "panic"
    /\ UNCHANGED <<input, tokens, parser, statements, resolver, interpreter, log>>

\* one iteration of the loop of Parser::parse
ParseDeclaration ==
    /\ pc = "parse" /\ EndsWithEof(parser) /\ ~Parser_is_at_end(parser)
    /\ \E d \in {Parser_declaration(parser)} :
         IF d.ok
         THEN /\ statements' = Append(statements, d.node)
              /\ parser' = d.p
              /\ log' = [log EXCEPT !.iterations =
                            Append(@, [ok |-> TRUE, from |-> parser.current,
                                       at |-> d.p.current, to |-> d.p.current])]
         ELSE \E resumed \in {Parser_synchronize(d.p)} :
              /\ statements' = statements
              /\ parser' = resumed
              /\ log' = [log EXCEPT !.parse_errors =
                            Append(@, [message |-> d.message, at |-> d.p.current,
                                       resumed |-> resumed.current,
                                       parsed |-> Len(statements)]),
                                     !.iterations =
                            Append(@, [ok |-> FALSE, from |-> parser.current,
                                       at |-> d.p.current, to |-> resumed.current])]
    /\ UNCHANGED <<pc, input, tokens, resolver, interpreter>>

\* Parser::parse returns; Lox::run makes the resolver
ParseEnd ==
    /\ pc = "parse" /\ EndsWithEof(parser) /\ Parser_is_at_end(parser)
    /\ resolver' = Resolver_new
    /\ log' = [log EXCEPT !.cursor = 1]
    /\ pc' = "resolve"
    /\ UNCHANGED <<input, tokens, parser, statements, interpreter>>

\* one iteration of the loop of Resolver::resolve on the top-level statements
ResolveStatement ==
    /\ pc = "resolve" /\ log.cursor <= Len(statements)
    /\ \E r \in {Resolver_resolve(<<statements[log.cursor]>>, 1, resolver)} :
         /\ statements' = [statements EXCEPT ![log.cursor] = r.node[1]]
         /\ resolver' = r.rs
         /\ log' = [log EXCEPT !.cursor = @ + 1,
                               !.resolved = Append(@, [before |-> resolver, after |-> r.rs])]
    /\ UNCHANGED <<pc, input, tokens, parser, interpreter>>

\* Resolver::resolve returns; Lox::run returns when had_resolve_error
ResolveEnd ==
    /\ pc = "resolve" /\ log.cursor > Len(statements)
    /\ pc' = IF resolver.had_resolve_error THEN "done" ELSE "interpret"
    /\ log' = [log EXCEPT !.cursor = 1]
    /\ UNCHANGED <<input, tokens, parser, statements, resolver, interpreter>>

\* what clock can read, and which way a HashMap comparison can go
ClockValues == {0, 1}

HashOrders == {"F", "O"}

\* one iteration of the loop of Interpreter::interpret
InterpretStatement ==
    /\ pc = "interpret" /\ log.cursor <= Len(statements)
    /\ \E now \in ClockValues, hash_order \in HashOrders :
       \E r \in {Interpreter_interpret(statements[log.cursor],
                      [interpreter EXCEPT !.fuel = MaxSteps, !.now = now,
                                          !.hash_order = hash_order])} :
         /\ interpreter' = [r.st EXCEPT !.fuel = 0, !.now = 0, !.hash_order = "F",
                                        !.depth = 0]
         /\ pc' = IF r.sig \in {"panic", "bound"} THEN r.sig ELSE "interpret"
         /\ log' = [log EXCEPT !.cursor = @ + 1,
                               !.executed = Append(@,
                                   [index |-> log.cursor, sig |-> r.sig,
                                    message |-> r.message,
                                    before |-> interpreter.envs[interpreter.globals].values,
                                    after |-> r.st.envs[r.st.globals].values,
                                    environment |-> r.st.environment])]
    /\ UNCHANGED <<input, tokens, parser, statements, resolver>>

\* Interpreter::interpret returns
InterpretEnd ==
    /\ pc = "interpret" /\ log.cursor > Len(statements)
    /\ pc' = "done"
    /\ UNCHANGED <<input, tokens, parser, statements, resolver, interpreter, log>>

\* Lox::run returns to run_file or to the loop of run_prompt
RunReturn ==
    /\ pc = "done"
    /\ pc' = IF input.mode = "prompt" THEN "prompt" ELSE "exit"
    /\ UNCHANGED <<input, tokens, parser, statements, resolver, interpreter, log>>

Next ==
    \/ RunFile
    \/ RunPrompt
    \/ PromptReadLine
    \/ PromptEof
    \/ RunScan
    \/ ParsePanic
    \/ ParseDeclaration
    \/ ParseEnd
    \/ ResolveStatement
    \/ ResolveEnd
    \/ InterpretStatement
    \/ InterpretEnd
    \/ RunReturn

Spec == Init /\ [][Next]_vars

(***************************************************************************)
(* environment.rs on its own, as its tests use it: environments are made,  *)
(* chained and defined in, and get and assign are called on any of them.   *)
(* The environments are interpreter.envs; log is the last call of get or   *)
(* assign: the environment and name it was called with, the environments   *)
(* before it, and what it returned.                                        *)
(***************************************************************************)
\* the names get and assign are called with; only the first is ever defined
EnvNames == <<"x", "y">>

EnvValues == {ObjNumber(1), ObjNumber(2)}

EnvInit ==
    /\ pc = "env"
    /\ input = [mode |-> "file", lines |-> <<>>]
    /\ tokens = <<>>
    /\ parser = Parser_new(<<>>)
    /\ statements = <<>>
    /\ resolver = Resolver_new
    /\ interpreter = Interpreter_new
    /\ log = [op |-> "none"]

\* Environment::new, and set_enclosing with an environment that exists
EnvNew ==
    /\ Len(interpreter.envs) < MaxEnvs
    /\ \E enclosing \in DOMAIN interpreter.envs :
       \E n \in {Environment_new(interpreter)} :
           interpreter' = Environment_set_enclosing(n.st, n.env, enclosing)
    /\ log' = [op |-> "new"]
    /\ UNCHANGED <<pc, input, tokens, parser, statements, resolver>>

EnvDefine ==
    /\ \E env \in DOMAIN interpreter.envs, value \in EnvValues :
           interpreter' = Environment_define(interpreter, env, EnvNames[1], value)
    /\ log' = [op |-> "define"]
    /\ UNCHANGED <<pc, input, tokens, parser, statements, resolver>>

EnvGet ==
    /\ \E env \in DOMAIN interpreter.envs, i \in DOMAIN EnvNames :
       \E r \in {Environment_get(interpreter, env, Token("Identifier", EnvNames[i], ObjNone, 1))} :
           /\ interpreter' = r.st
           /\ log' = [op |-> "get", env |-> env, name |-> EnvNames[i],
                      before |-> interpreter.envs, sig |-> r.sig, val |-> r.val,
                      message |-> r.message]
    /\ UNCHANGED <<pc, input, tokens, parser, statements, resolver>>

EnvAssign ==
    /\ \E env \in DOMAIN interpreter.envs, i \in DOMAIN EnvNames, value \in EnvValues :
       \E r \in {Environment_assign(interpreter, env,
                                   Token("Identifier", EnvNames[i], ObjNone, 1), value)} :
           /\ interpreter' = r.st
           /\ log' = [op |-> "assign", env |-> env, name |-> EnvNames[i],
                      before |-> interpreter.envs, sig |-> r.sig, val |-> value,
                      message |-> r.message]
    /\ UNCHANGED <<pc, input, tokens, parser, statements, resolver>>

EnvNext ==
    \/ EnvNew
    \/ EnvDefine
    \/ EnvGet
    \/ EnvAssign

EnvSpec == EnvInit /\ [][EnvNext]_vars

(***************************************************************************)
(* The properties.  log records the run of the latest source text and      *)
(* interpreter.trace what the interpreter did since it was made.           *)
(***************************************************************************)
Trace == interpreter.trace

Events(ev) == {i \in DOMAIN Trace : Trace[i].ev = ev}

\* C1: in the run of one source text, if the parser reported a parse error, no
\* statement of that source is executed.
C1_ParseErrorSkipsExecution ==
    log.parse_errors # <<>> => log.executed = <<>>

\* C2: in a script, no top-level statement is executed after one that raised a
\* runtime error.
C2_RuntimeErrorStopsScript ==
    input.mode = "file" =>
        \A i, j \in DOMAIN log.executed :
            i < j => log.executed[i].sig # "err"

\* C3: no callee of any kind (function, native function, class) is invoked with a
\* number of arguments that differs from its arity.
C3_ArityCheckedForEveryCallable ==
    \A i \in Events("invoke") : Trace[i].nargs = Trace[i].arity

\* whether two function, class or instance values are one underlying handle: the
\* same instance, the same declaration closed over the same environment
SameHandle(left, right) ==
    /\ left.t = right.t
    /\ CASE left.t = "Instance" -> left.ref = right.ref
         [] left.t = "Function" ->
                left.declaration = right.declaration /\ left.closure = right.closure
         [] OTHER -> left = right

\* C4: == on two function, class or instance values is true if and only if both are
\* the same underlying handle.
C4_EqualityIsIdentity ==
    \A i \in Events("equals") :
        {Trace[i].left.t, Trace[i].right.t} \subseteq {"Function", "Class", "Instance"}
            => ((Trace[i].outcome = "T") <=> SameHandle(Trace[i].left, Trace[i].right))

\* C5: after any block, function call or class declaration the current environment
\* is the one that was current before it, however the body was left; between
\* top-level statements and after interpret it is the globals environment.
C5_EnvironmentRestored ==
    /\ \A i \in Events("block") \cup Events("call") \cup Events("class") :
           Trace[i].after = Trace[i].before
    /\ pc \notin {"panic", "bound"} => interpreter.environment = interpreter.globals

\* a script has run whose blocks were left normally, by a runtime error and by a
\* return, inside and outside of calls
C5_Witness ==
    /\ pc = "exit"
    /\ \A sig \in {"ok", "err", "ret"} :
           \E i \in Events("block") : Trace[i].sig = sig
    /\ \E i \in Events("block") : Trace[i].sig = "ret" /\ Trace[i].before # 1
    /\ \A sig \in {"ok", "err"} : \E i \in Events("call") : Trace[i].sig = sig

\* the first catch of a return signal after event i
NextCatch(i) ==
    IF \E j \in Events("return_caught") : j > i
    THEN CHOOSE j \in Events("return_caught") :
             j > i /\ \A k \in Events("return_caught") : k > i => j <= k
    ELSE 0

\* C6: a return signal raised in a function body is caught by the innermost active
\* invocation and never reaches interpret; the invocation yields the returned value
\* (nil for a bare return), but an initializer yields its instance.
C6_ReturnCaughtByInnermostCall ==
    /\ \A i \in Events("return") :
           /\ NextCatch(i) # 0
           /\ Trace[NextCatch(i)].raised = Trace[i].depth
           /\ Trace[NextCatch(i)].caught = Trace[i].depth
           /\ Trace[NextCatch(i)].value = Trace[i].value
           /\ Trace[i].bare => Trace[i].value = ObjNone
           /\ Trace[NextCatch(i)].result =
                  IF Trace[NextCatch(i)].is_initializer
                  THEN Trace[NextCatch(i) + 1].result
                  ELSE Trace[i].value
           /\ Trace[NextCatch(i)].is_initializer =>
                  /\ Trace[NextCatch(i) + 1].ev = "initializer"
                  /\ Trace[NextCatch(i) + 1].result.t = "Instance"
    /\ \A k \in DOMAIN log.executed : log.executed[k].sig # "ret"

\* C6 as stated: every invocation that catches a return signal yields the returned
\* value, nil for a bare return.
C6_ReturnYieldsReturnedValue ==
    \A i \in Events("return_caught") : Trace[i].result = Trace[i].value

\* a script has run in which a nested call returned a value to a call that then
\* executed a bare return, and in which an initializer executed a bare return
C6_Witness ==
    /\ pc = "exit"
    /\ \E i, j \in Events("return_caught") :
           /\ i < j /\ ~Trace[i].is_initializer
           /\ Trace[i].caught = 2 /\ Trace[i].value # ObjNone
           /\ Trace[j].caught = 1 /\ Trace[j].result = ObjNone
    /\ \E i \in Events("return_caught") :
           Trace[i].is_initializer /\ Trace[i].result.t = "Instance"

\* C7: invoking a method named init yields the instance it is bound to, when reached
\* by calling the class and when called explicitly, when the body completes and when
\* it executes a bare return.
C7_InitYieldsInstance ==
    /\ \A i \in Events("initializer") :
           /\ Trace[i].result.t = "Instance"
           /\ Trace[i].result = interpreter.envs[Trace[i].closure].values["this"]
    /\ \A i \in Events("instantiated") :
           Trace[i].init => Trace[i].init_result = ObjInstance(Trace[i].instance)

\* a script has run whose initializers completed and returned, each both under a
\* call of the class and under an explicit call on an instance
C7_Witness ==
    /\ pc = "exit"
    /\ \A exit \in {"ok", "ret"} :
           /\ \E i \in Events("initializer") :
                  Trace[i].exit = exit /\ Trace[i + 1].ev = "instantiated"
           /\ \E i \in Events("initializer") :
                  Trace[i].exit = exit /\ Trace[i + 1].ev = "call"

\* whether the resolver, freshly made, reports an error in the statement on its own
HasResolveError(stmt) ==
    Resolver_resolve(<<stmt>>, 1, Resolver_new).rs.had_resolve_error

\* C8: if the resolver reports an error, no statement of the source is executed, and
\* resolution goes on to the following statements and reports their errors too.
C8_ResolveErrorsAllReported ==
    /\ resolver.had_resolve_error => log.executed = <<>>
    /\ \A k \in DOMAIN log.resolved :
           HasResolveError(statements[k]) =>
               Len(log.resolved[k].after.reported) > Len(log.resolved[k].before.reported)

\* C9: after "Invalid assignment target." the parser goes on from the token that
\* follows the assignment expression; no token is discarded.
C9_InvalidTargetDiscardsNothing ==
    \A k \in DOMAIN log.parse_errors :
        log.parse_errors[k].message = "Invalid assignment target."
            => log.parse_errors[k].resumed = log.parse_errors[k].at

\* the number of scopes between a use of lexeme and the innermost of the enclosing
\* scopes (the sets of names declared so far, innermost last) that declares it
ScopeDistance(scopes, lexeme) ==
    LET declaring == {i \in DOMAIN scopes : lexeme \in scopes[i]}
    IN  IF declaring = {} THEN NoDistance
        ELSE Len(scopes) - CHOOSE i \in declaring : \A k \in declaring : k <= i

DeclareIn(scopes, lexeme) ==
    IF scopes = <<>> THEN scopes ELSE [scopes EXCEPT ![Len(scopes)] = @ \cup {lexeme}]

\* the scopes after a statement: a declaration adds its name to the innermost one
Declared(stmt, scopes) ==
    IF stmt.kind \in {"Var", "FunctionDeclaration", "ClassDeclaration"}
    THEN DeclareIn(scopes, stmt.name.lexeme)
    ELSE scopes

RECURSIVE DistancesOfExpr(_, _), DistancesOfStmt(_, _), DistancesOfStmts(_, _, _)

\* whether every variable read and assignment target of the expression has the
\* distance of its name under the scopes
DistancesOfExpr(expr, scopes) ==
    CASE expr.kind = "Variable" ->
             expr.distance = ScopeDistance(scopes, expr.name.lexeme)
      [] expr.kind = "Assign" ->
             /\ DistancesOfExpr(expr.value, scopes)
             /\ expr.distance = ScopeDistance(scopes, expr.name.lexeme)
      [] expr.kind \in {"Binary", "Logical"} ->
             DistancesOfExpr(expr.left, scopes) /\ DistancesOfExpr(expr.right, scopes)
      [] expr.kind = "Call" ->
             /\ DistancesOfExpr(expr.callee, scopes)
             /\ \A i \in DOMAIN expr.arguments : DistancesOfExpr(expr.arguments[i], scopes)
      [] expr.kind = "Get" -> DistancesOfExpr(expr.object, scopes)
      [] expr.kind = "Grouping" -> DistancesOfExpr(expr.expression, scopes)
      [] expr.kind = "Set" ->
             DistancesOfExpr(expr.object, scopes) /\ DistancesOfExpr(expr.value, scopes)
      [] expr.kind = "Unary" -> DistancesOfExpr(expr.right, scopes)
      [] OTHER -> TRUE

\* a function opens one scope, which holds its parameters and the names of its body
DistancesOfFunction(decl, scopes) ==
    DistancesOfStmts(decl.body, 1,
        Append(scopes, {decl.params[i].lexeme : i \in DOMAIN decl.params}))

\* a class opens the scope of super when it has a superclass, and the scope of this
DistancesOfClass(decl, scopes) ==
    /\ decl.superclass # NoNode => DistancesOfExpr(decl.superclass, scopes)
    /\ \A i \in DOMAIN decl.methods :
           DistancesOfFunction(decl.methods[i],
               IF decl.superclass # NoNode
               THEN scopes \o <<{"super"}, {"this"}>>
               ELSE Append(scopes, {"this"}))

DistancesOfStmt(stmt, scopes) ==
    CASE stmt.kind = "Block" -> DistancesOfStmts(stmt.statements, 1, Append(scopes, {}))
      [] stmt.kind = "ClassDeclaration" -> DistancesOfClass(stmt, Declared(stmt, scopes))
      [] stmt.kind = "FunctionDeclaration" ->
             DistancesOfFunction(stmt, Declared(stmt, scopes))
      [] stmt.kind \in {"Expression", "Print"} -> DistancesOfExpr(stmt.expression, scopes)
      [] stmt.kind = "If" ->
             /\ DistancesOfExpr(stmt.condition, scopes)
             /\ DistancesOfStmt(stmt.then_branch, scopes)
             /\ stmt.else_branch # NoNode => DistancesOfStmt(stmt.else_branch, scopes)
      [] stmt.kind = "While" ->
             DistancesOfExpr(stmt.condition, scopes) /\ DistancesOfStmt(stmt.body, scopes)
      [] stmt.kind = "Return" ->
             stmt.value # NoNode => DistancesOfExpr(stmt.value, scopes)
      [] stmt.kind = "Var" ->
             stmt.initializer # NoNode => DistancesOfExpr(stmt.initializer, scopes)

DistancesOfStmts(stmts, i, scopes) ==
    \/ i > Len(stmts)
    \/ /\ DistancesOfStmt(stmts[i], scopes)
       /\ DistancesOfStmts(stmts, i + 1, Declared(stmts[i], scopes))

\* C10: in every top-level statement that resolved without an error, each variable
\* read and assignment target has the distance to the innermost enclosing scope
\* that declares its name before the use, and none when no local scope does.
C10_DistanceIsScopeCount ==
    \A k \in DOMAIN log.resolved :
        log.resolved[k].after.reported = log.resolved[k].before.reported
            => DistancesOfStmt(statements[k], <<>>)

\* whether a logical expression with this operator and left value short-circuits
ShortCircuits(operator, left) ==
    (operator = "Or") = Interpreter_is_truthy(left)

\* C11: a logical expression that short-circuits (or with a truthy left operand,
\* and with a falsy one) returns the left value unchanged and nothing of the right
\* operand happens; otherwise it returns the value of the right operand.
C11_LogicalReturnsOperand ==
    \A i \in Events("logical") :
        IF ShortCircuits(Trace[i].operator, Trace[i].left)
        THEN Trace[i].result = Trace[i].left /\ ~Trace[i].moved
        ELSE Trace[i].right.kind = "Literal" => Trace[i].result = Trace[i].right.literal

\* a script has run in which or and and each short-circuited past an assignment,
\* returning a non-boolean left value, and each returned a non-boolean right value
C11_Witness ==
    /\ pc = "exit"
    /\ \A operator \in {"Or", "And"} :
           /\ \E i \in Events("logical") :
                  /\ Trace[i].operator = operator
                  /\ ShortCircuits(operator, Trace[i].left)
                  /\ Trace[i].right.kind = "Grouping"
                  /\ Trace[i].left.t # "Bool"
           /\ \E i \in Events("logical") :
                  /\ Trace[i].operator = operator
                  /\ ~ShortCircuits(operator, Trace[i].left)
                  /\ Trace[i].right.kind = "Literal"
                  /\ Trace[i].result.t # "Bool"
    /\ \E i \in Events("logical") : Trace[i].moved

\* the calls of user functions and methods
Calls == {i \in Events("invoke") : Trace[i].callee = "Function"}

\* C12: a function value keeps the environment that was current at its declaration:
\* every call runs in a fresh environment whose parent is that closure, so a
\* counter closure yields 1, 2, 3, and the closures of two invocations of the
\* enclosing function do not share the captured variable.
C12_ClosureKeepsDeclarationEnvironment ==
    /\ \A i \in Calls :
           /\ Trace[i].env > Trace[i].envs
           /\ interpreter.envs[Trace[i].env].enclosing = Trace[i].closure
           /\ \/ "this" \in DOMAIN interpreter.envs[Trace[i].closure].values
              \/ \E j \in Events("function") :
                     /\ j < i
                     /\ Trace[j].name = Trace[i].name
                     /\ Trace[j].environment = Trace[i].closure
    /\ \A i, j \in Calls : i # j => Trace[i].env # Trace[j].env
    /\ (pc = "exit" /\ tokens = Scanner_scan_tokens(Counters))
           => interpreter.stdout = <<"1", "2", "3", "1">>

\* the counter script has run: one closure was called three times, and a closure
\* of another invocation of the enclosing function once
C12_Witness ==
    /\ pc = "exit" /\ tokens = Scanner_scan_tokens(Counters)
    /\ \E i, j, k, l \in Calls :
           /\ i < j /\ j < k /\ k < l
           /\ Trace[i].closure = Trace[j].closure /\ Trace[j].closure = Trace[k].closure
           /\ Trace[l].closure # Trace[k].closure /\ Trace[l].name = Trace[k].name
           /\ Trace[i].closure # interpreter.globals

\* C13: a variable use refers to the same binding on every call: a use that the
\* resolver left without a distance reads the globals, also once a local of the
\* same name has been declared around the function; a use with a distance reads
\* the environment that many hops up.
C13_UseKeepsItsBinding ==
    /\ \A i \in Events("lookup") :
           Trace[i].found =
               IF Trace[i].distance = NoDistance THEN interpreter.globals
               ELSE EnvAt(interpreter, Trace[i].environment, Trace[i].distance)
    /\ (pc = "exit" /\ tokens = Scanner_scan_tokens(StaticScope))
           => interpreter.stdout = <<"global", "global">>

\* the script has run: the function read a in the globals twice, the second time
\* with a local a declared in the block around it
C13_Witness ==
    /\ pc = "exit" /\ tokens = Scanner_scan_tokens(StaticScope)
    /\ \E i, j \in Events("lookup") :
           /\ i < j
           /\ Trace[i].name = "a" /\ Trace[j].name = "a"
           /\ Trace[i].found = interpreter.globals /\ Trace[j].found = interpreter.globals
           /\ EnvHolding(interpreter, Trace[j].environment, "a") # interpreter.globals

\* C14: super.m looks m up from the superclass of the class the method was declared
\* in (that class's methods, then its superclass chain), whatever the class of
\* this; the method it returns is bound to the current this; when no class of the
\* chain has m it is a runtime error.
C14_SuperStartsAtSuperclass ==
    /\ \A i \in Events("super") :
           /\ Trace[i].method = LoxClass_find_method(Trace[i].superclass, Trace[i].name)
           /\ IF Trace[i].method = ObjNone
              THEN Trace[i].function = ObjNone
              ELSE /\ Trace[i].function.declaration = Trace[i].method.declaration
                   /\ interpreter.envs[Trace[i].function.closure].values
                          = ("this" :> Trace[i].this)
                   /\ interpreter.envs[Trace[i].function.closure].enclosing
                          = Trace[i].method.closure
    /\ (pc = "exit" /\ tokens = Scanner_scan_tokens(SuperLookup))
           => /\ interpreter.stdout = <<"<C instance>", "6">>
              /\ interpreter.stderr = <<"Undefined property 'x'.">>

\* the script has run: in methods of B, called on an instance of its subclass C
\* that overrides m, super.m found A's method, super.z found the method of A's
\* superclass Z, and super.x found none
C14_Witness ==
    /\ pc = "exit" /\ tokens = Scanner_scan_tokens(SuperLookup)
    /\ \E i, j, k \in Events("super") :
           /\ Trace[i].name = "m" /\ Trace[j].name = "z" /\ Trace[k].name = "x"
           /\ \A e \in {i, j, k} :
                  /\ Trace[e].superclass.name = "A"
                  /\ interpreter.insts[Trace[e].this.ref].class.name = "C"
           /\ "m" \in DOMAIN interpreter.insts[Trace[i].this.ref].class.methods
           /\ Trace[i].method = Trace[i].superclass.methods["m"]
           /\ Trace[j].method = Trace[j].superclass.superclass.methods["z"]
           /\ Trace[k].method = ObjNone

\* the gets that found a method
MethodGets == {i \in Events("get") : Trace[i].method # ObjNone}

\* C15: every read of a method through an instance yields a new function whose
\* closure is a new environment holding just this, bound to that instance, with
\* the method's own closure as its parent: two reads through one instance yield
\* two functions both bound to it, and a bound method that was stored still sees
\* its instance when it is called later.
C15_MethodReadBindsThis ==
    /\ \A i \in MethodGets :
           /\ Trace[i].result.t = "Function"
           /\ Trace[i].result.declaration = Trace[i].method.declaration
           /\ Trace[i].result.closure > Trace[i].envs
           /\ Trace[i].result.closure # Trace[i].method.closure
           /\ interpreter.envs[Trace[i].result.closure].values
                  = ("this" :> ObjInstance(Trace[i].instance))
           /\ interpreter.envs[Trace[i].result.closure].enclosing
                  = Trace[i].method.closure
    /\ \A i, j \in MethodGets :
           i # j => Trace[i].result.closure # Trace[j].result.closure
    /\ (pc = "exit" /\ tokens = Scanner_scan_tokens(BoundMethods))
           => interpreter.stdout = <<"1", "1", "2", "1">>

\* the script has run: m was read twice through a and once through b, the first
\* read was stored in a field of b, and each of the four was called after all the
\* reads
C15_Witness ==
    /\ pc = "exit" /\ tokens = Scanner_scan_tokens(BoundMethods)
    /\ Len(interpreter.stdout) = 4
    /\ \E i, j, k \in MethodGets :
           /\ i < j /\ j < k
           /\ Trace[i].name = "m" /\ Trace[j].name = "m" /\ Trace[k].name = "m"
           /\ Trace[i].instance = Trace[j].instance
           /\ Trace[k].instance # Trace[i].instance
           /\ \E l \in Events("get") :
                  /\ Trace[l].name = "k" /\ Trace[l].instance = Trace[k].instance
                  /\ Trace[l].result = Trace[i].result
           /\ \E c \in Events("invoke") :
                  c > k /\ Trace[c].callee = "Function"
                        /\ Trace[c].closure = Trace[i].result.closure

\* C16: a property read returns the field of that name when the instance has one,
\* whatever methods its class and superclasses have; otherwise the first method of
\* that name from the class up the superclass chain, bound; otherwise it is the
\* runtime error "Undefined property '<name>'.".
C16_FieldThenMethodThenError ==
    \A i \in Events("get") :
        LET e == Trace[i]
            method == LoxClass_find_method(interpreter.insts[e.instance].class, e.name)
        IN  IF e.name \in DOMAIN e.fields
            THEN e.result = e.fields[e.name] /\ e.message = ""
            ELSE IF method # ObjNone
            THEN /\ e.method = method /\ e.message = ""
                 /\ e.result.t = "Function"
                 /\ e.result.declaration = method.declaration
            ELSE /\ e.result = ObjNone
                 /\ e.message = "Undefined property '" \o e.name \o "'."

\* C16 but for the text of the error: a field wins over a method, a method of
\* the class over one of a superclass, and a name that is neither is an error
C16_FieldThenMethodThenSomeError ==
    \A i \in Events("get") :
        LET e == Trace[i]
            method == LoxClass_find_method(interpreter.insts[e.instance].class, e.name)
        IN  IF e.name \in DOMAIN e.fields
            THEN e.result = e.fields[e.name] /\ e.message = ""
            ELSE IF method # ObjNone
            THEN /\ e.method = method /\ e.message = ""
                 /\ e.result.t = "Function"
                 /\ e.result.declaration = method.declaration
            ELSE e.result = ObjNone /\ e.message # ""

\* the sets of the field name of instance that precede position i of the trace
SetsBefore(i, instance, name) ==
    {j \in Events("set") : j < i /\ Trace[j].instance = instance /\ Trace[j].name = name}

\* C17: a field set through one reference to an instance is seen through every
\* reference to it (another variable, this in its methods, an argument): the set
\* changes that field of the one instance all the handles lead to, a later read
\* of the field yields the value last set, and no other instance changes.
C17_FieldSetIsShared ==
    /\ \A j \in Events("set") :
           /\ DOMAIN Trace[j].after = DOMAIN Trace[j].before
           /\ Trace[j].name \in DOMAIN Trace[j].after[Trace[j].instance].fields
           /\ Trace[j].after[Trace[j].instance].fields[Trace[j].name] = Trace[j].value
           /\ \A k \in DOMAIN Trace[j].before :
                  k # Trace[j].instance => Trace[j].after[k] = Trace[j].before[k]
    /\ \A i \in Events("get") :
           LET sets == SetsBefore(i, Trace[i].instance, Trace[i].name)
           IN  sets # {} =>
                   Trace[i].result = Trace[CHOOSE j \in sets : \A k \in sets : k <= j].value
    /\ (pc = "exit" /\ tokens = Scanner_scan_tokens(SharedInstance))
           => interpreter.stdout = <<"1", "2", "3", "0">>

\* the script has run: the field x of one instance was set through a variable,
\* through this and through a parameter, each time read back through another
\* reference, while a second instance with a field x existed
C17_Witness ==
    /\ pc = "exit" /\ tokens = Scanner_scan_tokens(SharedInstance)
    /\ Len(interpreter.stdout) = 4
    /\ \E c \in DOMAIN interpreter.insts, j1, j2, j3 \in Events("set") :
           /\ j1 < j2 /\ j2 < j3
           /\ \A j \in {j1, j2, j3} :
                  /\ Trace[j].name = "x" /\ Trace[j].instance # c
                  /\ Trace[j].instance = Trace[j1].instance
                  /\ "x" \in DOMAIN Trace[j].before[c].fields
                  /\ \E i \in Events("get") :
                         /\ i > j /\ Trace[i].instance = Trace[j].instance
                         /\ Trace[i].name = "x" /\ Trace[i].result = Trace[j].value
           /\ Trace[j1].value # Trace[j2].value /\ Trace[j2].value # Trace[j3].value

\* the name a statement declares in the scope it is in, if any
DeclaredNames(stmt) ==
    IF stmt.kind \in {"Var", "FunctionDeclaration", "ClassDeclaration"}
    THEN {stmt.name.lexeme} ELSE {}

RECURSIVE RedeclaresStmt(_, _, _), RedeclaresStmts(_, _, _, _)

\* whether a function declares a name twice in one scope: its parameters and the
\* statements of its body share a scope
RedeclaresFunction(decl) ==
    \/ \E i, j \in DOMAIN decl.params :
           i < j /\ decl.params[i].lexeme = decl.params[j].lexeme
    \/ RedeclaresStmts(decl.body, 1,
                       {decl.params[i].lexeme : i \in DOMAIN decl.params}, TRUE)

\* whether a statement, or a statement within it, declares a name that its scope
\* has already: declared is the set of names declared so far in the scope of the
\* statement, local whether that scope is not the global one
RedeclaresStmt(stmt, declared, local) ==
    \/ local /\ DeclaredNames(stmt) \cap declared # {}
    \/ CASE stmt.kind = "Block" -> RedeclaresStmts(stmt.statements, 1, {}, TRUE)
         [] stmt.kind = "FunctionDeclaration" -> RedeclaresFunction(stmt)
         [] stmt.kind = "ClassDeclaration" ->
                \E i \in DOMAIN stmt.methods : RedeclaresFunction(stmt.methods[i])
         [] stmt.kind = "If" ->
                \/ RedeclaresStmt(stmt.then_branch, declared, local)
                \/ /\ stmt.else_branch # NoNode
                   /\ RedeclaresStmt(stmt.else_branch, declared, local)
         [] stmt.kind = "While" -> RedeclaresStmt(stmt.body, declared, local)
         [] OTHER -> FALSE

RedeclaresStmts(stmts, i, declared, local) ==
    /\ i <= Len(stmts)
    /\ \/ RedeclaresStmt(stmts[i], declared, local)
       \/ RedeclaresStmts(stmts, i + 1, declared \cup DeclaredNames(stmts[i]), local)

\* what the resolution of top-level statement k wrote to standard error
NewReports(k) ==
    SubSeq(log.resolved[k].after.reported, Len(log.resolved[k].before.reported) + 1,
           Len(log.resolved[k].after.reported))

ReportsAlreadyDeclared(k) ==
    \E m \in DOMAIN NewReports(k) :
        NewReports(k)[m] = "Already variable with this name in this scope."

\* C18: declaring a name (variable, function, class, parameter) that its
\* non-global scope has already is a resolve error; declaring a name again at
\* global scope is accepted and rebinds it; declaring it in a nested scope is
\* accepted and shadows it.
C18_RedeclarationOnlyLocalIsError ==
    /\ \A k \in DOMAIN log.resolved :
           /\ RedeclaresStmt(statements[k], {}, FALSE) => NewReports(k) # <<>>
           /\ ReportsAlreadyDeclared(k) => RedeclaresStmt(statements[k], {}, FALSE)
    /\ (pc = "exit" /\ tokens = Scanner_scan_tokens(GlobalRedeclared))
           => interpreter.stdout = <<"2", "<class a>">> /\ interpreter.stderr = <<>>
    /\ (pc = "exit" /\ tokens = Scanner_scan_tokens(Shadowing))
           => interpreter.stdout = <<"2", "1">> /\ interpreter.stderr = <<>>

\* C18 for the statements the resolver came to with no scope open
C18_RedeclarationFromNoScope ==
    \A k \in DOMAIN log.resolved :
        log.resolved[k].before.scopes = <<>> =>
            /\ RedeclaresStmt(statements[k], {}, FALSE) => ReportsAlreadyDeclared(k)
            /\ ReportsAlreadyDeclared(k) => RedeclaresStmt(statements[k], {}, FALSE)

RECURSIVE BadReturn(_, _)

\* whether a statement within a function of the given kind (None outside any)
\* holds a return outside any function or method, or a return of a value directly
\* in a method named init
BadReturn(stmt, function_type) ==
    CASE stmt.kind = "Return" ->
             \/ function_type = "None"
             \/ function_type = "Initializer" /\ stmt.value # NoNode
      [] stmt.kind = "Block" ->
             \E i \in DOMAIN stmt.statements : BadReturn(stmt.statements[i], function_type)
      [] stmt.kind = "FunctionDeclaration" ->
             \E i \in DOMAIN stmt.body : BadReturn(stmt.body[i], "Function")
      [] stmt.kind = "ClassDeclaration" ->
             \E m \in DOMAIN stmt.methods : \E i \in DOMAIN stmt.methods[m].body :
                 BadReturn(stmt.methods[m].body[i],
                           IF stmt.methods[m].name.lexeme = "init"
                           THEN "Initializer" ELSE "Method")
      [] stmt.kind = "If" ->
             \/ BadReturn(stmt.then_branch, function_type)
             \/ stmt.else_branch # NoNode /\ BadReturn(stmt.else_branch, function_type)
      [] stmt.kind = "While" -> BadReturn(stmt.body, function_type)
      [] OTHER -> FALSE

ReportsReturn(k) ==
    \E m \in DOMAIN NewReports(k) :
        NewReports(k)[m] \in {"Can't return from top-level code.",
                              "Can't return a value from an initializer."}

\* C19: the resolver rejects every return that is in no function or method, and
\* every return of a value directly in a method named init; it accepts a bare
\* return in init and a return of a value in a function declared within init.
C19_ReturnRejectedOutsideFunction ==
    \A k \in DOMAIN log.resolved :
        /\ BadReturn(statements[k], "None") => NewReports(k) # <<>>
        /\ ReportsReturn(k) => BadReturn(statements[k], "None")

\* C19 for the statements the resolver came to with no current function
C19_ReturnFromNoFunction ==
    \A k \in DOMAIN log.resolved :
        log.resolved[k].before.current_function = "None" =>
            /\ BadReturn(statements[k], "None") => NewReports(k) # <<>>
            /\ ReportsReturn(k) => BadReturn(statements[k], "None")

\* whether a parser that has skipped to position r of the tokens (r of them are
\* behind it), from an error at position at, is at a place to resume: the end,
\* just behind a semicolon it skipped, or in front of a statement keyword
AtBoundary(r, at) ==
    \/ tokens[r + 1].token_type = "Eof"
    \/ r > at /\ tokens[r].token_type = "Semicolon"
    \/ tokens[r + 1].token_type
           \in {"Class", "Fun", "Var", "For", "If", "While", "Print", "Return"}

\* the first position from position from on that is a place to resume
FirstBoundary(from, at) ==
    CHOOSE r \in from .. Len(tokens) - 1 :
        AtBoundary(r, at) /\ \A q \in from .. r - 1 : ~AtBoundary(q, at)

\* the parse just ended: nothing is resolved yet
Parsed == pc = "resolve" /\ log.cursor = 1 /\ log.resolved = <<>>

\* the statements parse returned are those it had at error k followed by those of
\* a parse that starts where the parser resumed
ResumedInOrder(k) ==
    statements = SubSeq(statements, 1, log.parse_errors[k].parsed)
                 \o Parser_parse([tokens |-> tokens,
                                  current |-> log.parse_errors[k].resumed], <<>>)

\* C20, as amended: after a parse error the parser skips the token the error is
\* at, if it is not the end, and then tokens until it has just skipped a ';' or
\* the next token is one of class, fun, var, for, if, while, print, return (or
\* the end); the failed declaration contributes no statement, and the
\* declarations from there on are parsed and returned in order.
C20_SynchronizeSkipsErrorToken ==
    /\ \A k \in DOMAIN log.parse_errors :
           LET at == log.parse_errors[k].at
           IN  log.parse_errors[k].resumed =
                   FirstBoundary(IF tokens[at + 1].token_type = "Eof" THEN at
                                 ELSE at + 1, at)
    /\ Parsed => \A k \in DOMAIN log.parse_errors : ResumedInOrder(k)
    /\ (Parsed /\ tokens = Scanner_scan_tokens(Synchronize))
           => statements
                  = Parser_parse(Parser_new(Scanner_scan_tokens(PrintThreeTwice)), <<>>)

\* C20, as stated: after a parse error the parser skips tokens until it has just
\* consumed a ';' or the next token is one of class, fun, var, for, if, while,
\* print, return; the failed declaration contributes no statement, and every
\* well-formed declaration from there on is parsed and returned in order.
C20_SynchronizeSkipsToBoundary ==
    /\ \A k \in DOMAIN log.parse_errors :
           log.parse_errors[k].resumed
               = FirstBoundary(log.parse_errors[k].at, log.parse_errors[k].at)
    /\ Parsed => \A k \in DOMAIN log.parse_errors : ResumedInOrder(k)

\* the parse of the script has ended with three errors: after the first the
\* parser resumed behind a semicolon, after the second in front of print, and
\* the third was at a print, which it skipped; print 3 ; was parsed after the
\* second and after the third
C20_Witness ==
    /\ Parsed /\ tokens = Scanner_scan_tokens(Synchronize)
    /\ Len(log.parse_errors) = 3 /\ Len(statements) = 2
    /\ \A k \in 1 .. 3 : log.parse_errors[k].resumed > log.parse_errors[k].at
    /\ tokens[log.parse_errors[1].resumed].token_type = "Semicolon"
    /\ tokens[log.parse_errors[2].resumed].token_type # "Semicolon"
    /\ tokens[log.parse_errors[2].resumed + 1].token_type = "Print"
    /\ tokens[log.parse_errors[3].at + 1].token_type = "Print"
    /\ log.parse_errors[3].resumed > log.parse_errors[3].at + 1
    /\ log.parse_errors[2].parsed = 0 /\ log.parse_errors[3].parsed = 1

\* what Parser::parse returns for a source
ParseOf(source) == Parser_parse(Parser_new(Scanner_scan_tokens(source)), <<>>)

\* C21: for (init; cond; incr) body runs init once, then repeats: evaluate cond
\* (true when absent) and, when it is truthy, run body and then incr; it ends the
\* first time cond is falsy, and a variable declared by init is in a scope of its
\* own, not visible after the loop.  The for loops of the scripts are parsed to
\* the statements of the same scripts written with a block, init, while and
\* incr at the end of the body, and run as those do.
C21_ForIsWhileInItsOwnScope ==
    /\ (Parsed /\ tokens = Scanner_scan_tokens(ForLoops))
           => statements = ParseOf(ForLoopsAsWhile)
    /\ (Parsed /\ tokens = Scanner_scan_tokens(ForNoClauses))
           => statements = ParseOf(ReturnInLoop)
    /\ (pc = "exit" /\ tokens = Scanner_scan_tokens(ForLoops))
           => /\ interpreter.stdout = <<"0", "1", "2", "A">>
              /\ interpreter.stderr = <<"Undefined variable 'j'.">>
    /\ (pc = "exit" /\ tokens = Scanner_scan_tokens(ForNoClauses))
           => interpreter.stdout = <<"2">> /\ interpreter.stderr = <<>>

\* the script has run: a for loop whose variable shadows a global ran its body
\* three times and left the global as it was, and a for loop whose condition was
\* falsy at once ran nothing and its variable was unknown after it
C21_Witness ==
    /\ pc = "exit" /\ tokens = Scanner_scan_tokens(ForLoops)
    /\ Len(interpreter.stdout) = 4 /\ Len(interpreter.stderr) = 1
    /\ Len(statements) = 5
    /\ statements[2].kind = "Block" /\ statements[2].statements[2].kind = "While"
    /\ statements[4].kind = "Block"

\* C22: == and != on any two values terminate with a Bool and never fail, also on
\* function values whose closure holds the function itself, on classes and on
\* instances; values of different runtime kinds compare unequal, and nil equals
\* only nil.
C22_EqualityIsTotal ==
    \A i \in Events("equals") :
        /\ Trace[i].outcome \in {"T", "F"}
        /\ Trace[i].left.t # Trace[i].right.t => Trace[i].outcome = "F"
        /\ Trace[i].left.t = "None" /\ Trace[i].right.t = "None" => Trace[i].outcome = "T"

\* C22 for the comparisons that end: different kinds are unequal, nil equals nil
C22_EqualityOfKinds ==
    \A i \in Events("equals") :
        /\ Trace[i].left.t # Trace[i].right.t => Trace[i].outcome = "F"
        /\ Trace[i].left.t = "None" /\ Trace[i].right.t = "None" => Trace[i].outcome = "T"

\* C23: for every source, also one in which the scanner reported errors, the
\* tokens the driver hands to the parser end with an Eof token, so the parser
\* never reads at or past the end of the tokens.
C23_TokensEndWithEof ==
    /\ pc = "parse" => EndsWithEof(parser)
    /\ log.scan_errors > 0 => pc # "panic"

\* C23 for the sources in which the scanner reported no error
C23_TokensEndWithEofWithoutScanError ==
    (pc = "parse" /\ log.scan_errors = 0) => EndsWithEof(parser)

\* the environments of the chain that starts at env, nearest first
RECURSIVE ChainOf(_, _)
ChainOf(envs, env) ==
    IF env = 0 THEN <<>> ELSE <<env>> \o ChainOf(envs, envs[env].enclosing)

\* the places of the chain whose environment binds the name of the call
Binders(chain) == {i \in DOMAIN chain : log.name \in DOMAIN log.before[chain[i]].values}

\* the nearest environment of the chain that binds the name
Nearest(chain) == chain[CHOOSE i \in Binders(chain) : \A k \in Binders(chain) : i <= k]

C24_WitnessNearest ==
    /\ log.op = "get" /\ log.sig = "ok" /\ log.name = "x"
    /\ Binders(ChainOf(log.before, log.env)) = {2, 3}
    /\ log.before[ChainOf(log.before, log.env)[2]].values["x"]
           # log.before[ChainOf(log.before, log.env)[3]].values["x"]

\* the globals as they are
Globals == interpreter.envs[interpreter.globals].values

\* the statements of the line being run that raised a runtime error
Failed == {k \in DOMAIN log.executed : log.executed[k].sig = "err"}

\* C25: in interactive mode a runtime error raised by a line does not end the
\* session: the next line is read and run normally, and every global defined
\* before the error, by earlier lines or by earlier statements of the failing
\* line, is still defined with its value.
C25_SessionSurvivesRuntimeError ==
    input.mode = "prompt" =>
        /\ \A k \in Failed :
               /\ pc \notin {"panic", "bound"}
               /\ log.executed[k].environment = interpreter.globals
               /\ \A name \in DOMAIN log.executed[k].before :
                      name \in DOMAIN log.executed[k].after /\ name \in DOMAIN Globals
               /\ k = Len(log.executed) => Globals = log.executed[k].after
        /\ (pc = "exit" /\ input = [mode |-> "prompt", lines |-> <<>>]
                /\ interpreter.stderr = <<"Operand must be a number.">>)
               => \/ interpreter.stdout = <<"1">>
                  \/ interpreter.stdout = <<"3", "4">>

\* the third line of a session has run to its end and has read and used a
\* global that the first line defined and that the second line assigned before
\* it raised a runtime error in a block in a function
C25_Witness ==
    /\ input = [mode |-> "prompt", lines |-> <<>>] /\ pc = "exit"
    /\ log.run = 3 /\ Len(log.executed) = 3 /\ Failed = {}
    /\ interpreter.stderr = <<"Operand must be a number.">>
    /\ interpreter.stdout = <<"3", "4">>
    /\ {"a", "c", "f"} \subseteq DOMAIN Globals
    /\ Globals["a"] = ObjNumber(3)

\* the environment a use with the given distance is to act on: that many parent
\* hops above the current one, or the globals for a use with no distance
Target(envs, environment, distance) ==
    IF distance = NoDistance THEN interpreter.globals
    ELSE ChainOf(envs, environment)[distance + 1]

\* the environments of the chain nearer than the target that bind the name
NearerBinders(envs, environment, distance, name) ==
    {i \in DOMAIN ChainOf(envs, environment) :
         /\ ChainOf(envs, environment)[i] # Target(envs, environment, distance)
         /\ distance # NoDistance => i <= distance
         /\ name \in DOMAIN envs[ChainOf(envs, environment)[i]].values}

\* the variable reads, and the assignments
Reads == {i \in Events("lookup") : Trace[i].name \notin {"this", "super"}}

\* C26: a variable read or assignment with resolved distance d reads or writes
\* the binding of the environment exactly d parent hops above the current one,
\* also when a nearer environment binds the name, and changes no other
\* environment; one with no distance reads or writes the globals, whatever the
\* current chain binds.
C26_DistanceSelectsEnvironment ==
    /\ \A i \in Reads :
           /\ Trace[i].distance # NoDistance
                  => Trace[i].distance < Len(ChainOf(Trace[i].envs, Trace[i].environment))
           /\ Trace[i].value =
                  Trace[i].envs[Target(Trace[i].envs, Trace[i].environment,
                                       Trace[i].distance)].values[Trace[i].name]
    /\ \A i \in Events("assign") :
           /\ Trace[i].distance # NoDistance
                  => Trace[i].distance < Len(ChainOf(Trace[i].before, Trace[i].environment))
           /\ Trace[i].after =
                  [Trace[i].before EXCEPT
                       ![Target(Trace[i].before, Trace[i].environment,
                                Trace[i].distance)].values[Trace[i].name] = Trace[i].value]
    /\ (pc = "exit" /\ tokens = Scanner_scan_tokens(Distances))
           => interpreter.stdout = <<"1", "2", "5", "3", "global", "3", "x">>

\* the script has run: a read and an assignment with a distance, and a read and
\* an assignment with none, each acted on its environment while a nearer
\* environment of the chain bound the same name
C26_Witness ==
    /\ pc = "exit" /\ tokens = Scanner_scan_tokens(Distances)
    /\ Len(interpreter.stdout) = 7
    /\ \A local \in BOOLEAN :
           /\ \E i \in Reads :
                  /\ Trace[i].name = "a" /\ (Trace[i].distance # NoDistance) = local
                  /\ NearerBinders(Trace[i].envs, Trace[i].environment,
                                   Trace[i].distance, "a") # {}
           /\ \E i \in Events("assign") :
                  /\ Trace[i].name = "a" /\ (Trace[i].distance # NoDistance) = local
                  /\ NearerBinders(Trace[i].before, Trace[i].environment,
                                   Trace[i].distance, "a") # {}

\* the top-level statements resolved so far that are declarations of a function
\* or a class
DeclarationsResolved ==
    {k \in DOMAIN log.resolved :
         statements[k].kind \in {"FunctionDeclaration", "ClassDeclaration"}}

\* whether top-level statement k is a return, or prints or evaluates this or a
\* super access
OutsideUse(k) ==
    \/ statements[k].kind = "Return"
    \/ /\ statements[k].kind \in {"Print", "Expression"}
       /\ statements[k].expression.kind \in {"This", "Super"}

\* C27: when the resolver finishes a function or class declaration, with or
\* without an error reported inside it, current_function and current_class hold
\* the values they had before it; so a this, super or return that follows a
\* declaration at top level is rejected.
C27_ContextRestored ==
    /\ \A k \in DeclarationsResolved :
           /\ log.resolved[k].after.current_function = log.resolved[k].before.current_function
           /\ log.resolved[k].after.current_class = log.resolved[k].before.current_class
    /\ \A k \in DOMAIN log.resolved : OutsideUse(k) => NewReports(k) # <<>>

\* C27 for the declarations in which the resolver reported no error
C27_ContextRestoredWithoutError ==
    \A k \in DeclarationsResolved :
        NewReports(k) = <<>> =>
            /\ log.resolved[k].after.current_function = log.resolved[k].before.current_function
            /\ log.resolved[k].after.current_class = log.resolved[k].before.current_class

\* C28: the scope stack of the resolver is balanced: after a block, a function
\* declaration or a class declaration it has the depth it had before, also when
\* an error (a duplicate parameter, say) was reported inside, and it is empty
\* when Resolver::resolve returns for a program.
C28_ScopesBalanced ==
    /\ \A k \in DOMAIN log.resolved :
           Len(log.resolved[k].after.scopes) = Len(log.resolved[k].before.scopes)
    /\ pc \in {"interpret", "done", "exit"} /\ log.run > 0 => resolver.scopes = <<>>
    /\ (pc = "resolve" /\ log.cursor > Len(statements)) => resolver.scopes = <<>>

\* C28 for the statements in which the resolver reported no error
C28_ScopesBalancedWithoutError ==
    \A k \in DOMAIN log.resolved :
        NewReports(k) = <<>> =>
            Len(log.resolved[k].after.scopes) = Len(log.resolved[k].before.scopes)

\* the statements that panicked in get_at, assign_at or ancestor
Missed ==
    {k \in DOMAIN log.executed :
         /\ log.executed[k].sig = "panic"
         /\ log.executed[k].message = "unwrap on a None value"}

\* the environment distance hops above environment exists and binds the name
Binds(envs, environment, distance, name) ==
    /\ distance < Len(ChainOf(envs, environment))
    /\ name \in DOMAIN envs[ChainOf(envs, environment)[distance + 1]].values

\* C29: in a program the resolver accepted, each variable, assignment, this or
\* super node evaluated with a resolved distance d finds an environment d hops
\* above the current one that binds the name (and for super, this is bound to an
\* instance); get_at and assign_at never miss an environment or a name.
C29_ResolvedLookupsNeverMiss ==
    /\ \A i \in Events("lookup") :
           Trace[i].distance # NoDistance
               => Binds(Trace[i].envs, Trace[i].environment, Trace[i].distance,
                        Trace[i].name)
    /\ \A i \in Events("assign") :
           Trace[i].distance # NoDistance
               => Binds(Trace[i].before, Trace[i].environment, Trace[i].distance,
                        Trace[i].name)
    /\ \A i \in Events("super") : Trace[i].this.t = "Instance"
    /\ Missed = {}

\* C29 for every program but the one that assigns to a local variable in its own
\* initializer
C29_ResolvedLookupsNeverMissElsewhere ==
    tokens # Scanner_scan_tokens(AssignInOwnInitializer) => Missed = {}

\* the iterations of the loop of Parser::parse in this run
Iterations == log.iterations

\* C30: Parser::parse terminates on tokens that end with Eof: each iteration of
\* its loop starts at a token that is not Eof and leaves the parser at a later
\* position, when a declaration is parsed and when an error is followed by
\* synchronize, so there are at most as many iterations as tokens before Eof;
\* the position never passes the Eof token and is never below the first token.
C30_ParseConsumesAndStaysInside ==
    (log.run > 0 /\ EndsWithEof(parser)) =>
        /\ parser.current \in 0..(Len(parser.tokens) - 1)
        /\ Len(Iterations) <= parser.current
        /\ \A k \in DOMAIN Iterations :
               /\ parser.tokens[Iterations[k].from + 1].token_type # "Eof"
               /\ Iterations[k].from <= Iterations[k].at
               /\ Iterations[k].at <= Iterations[k].to
               /\ Iterations[k].from < Iterations[k].to
               /\ Iterations[k].to <= Len(parser.tokens) - 1
               /\ k > 1 => Iterations[k].from = Iterations[k - 1].to
        /\ pc \in {"resolve", "interpret", "done"} => Parser_is_at_end(parser)

\* the parser has returned for a program with declarations that parse, an error
\* at the first token of a declaration, and an error at Eof
C30_Witness ==
    /\ pc = "resolve" /\ tokens = Scanner_scan_tokens(ParseErrors)
    /\ Len(Iterations) = 5 /\ Len(statements) = 2
    /\ \E k \in DOMAIN Iterations :
           /\ ~Iterations[k].ok /\ Iterations[k].at = Iterations[k].from
           /\ Iterations[k].to = Iterations[k].from + 1
    /\ \E k \in DOMAIN Iterations :
           /\ ~Iterations[k].ok /\ Iterations[k].at = Len(tokens) - 1
           /\ Iterations[k].to = Iterations[k].at

====
